---- MODULE Spec2Model ----
(***************************************************************************)
(* Model of the flow normalisation and validation engine of homey_mcp      *)
(* (src/src/homey_mcp/client/flows.py, class FlowAPI).                     *)
(*                                                                         *)
(* JSON / Python values are encoded uniformly as records                   *)
(*   [t, s, n, b, kids]                                                    *)
(* t is the Python type ("null" None, "str", "num" int/float, "bool",      *)
(* "map" dict, "list" list); s, n, b carry the scalar; kids is the         *)
(* ordered sequence of entries [k |-> key, v |-> value] of a dict (Python  *)
(* dicts keep insertion order) or of a list (k = "").  A raised exception  *)
(* is the outcome [t |-> "error", s |-> exception type, ...].              *)
(* warnings holds the messages the last call passed to logger.warning.     *)
(* callerArg is the argument of the last call as its caller sees it after  *)
(* the call; sessionUsed tells whether the call used the HTTP session.     *)
(* callers holds, for each task calling _get_available_cards, the listing  *)
(* request it is suspended at; listingRequests counts the requests sent    *)
(* for each card listing.  The tool handlers of FlowManagementTools        *)
(* (src/src/homey_mcp/tools/flow/management.py) are modelled on top.       *)
(***************************************************************************)
EXTENDS Integers, Sequences, FiniteSets, TLC

VARIABLES op, arg, mid, san, ret, posted, mode, cachedCards, warnings, callerArg, sessionUsed, callers, listingRequests

vars == <<op, arg, mid, san, ret, posted, mode, cachedCards, warnings, callerArg, sessionUsed, callers, listingRequests>>

(***************************************************************************)
(* Bounds of the model.                                                    *)
(***************************************************************************)
\* longest generic list / map drawn as an input
MaxLen == 2
\* longest cards list handed to the converter
MaxCards == 3
\* concurrent callers of _get_available_cards
MaxCallers == 3

(***************************************************************************)
(* Values.                                                                 *)
(***************************************************************************)
MkVal(t, s, n, b, kids) == [t |-> t, s |-> s, n |-> n, b |-> b, kids |-> kids]

Null == MkVal("null", "", 0, FALSE, <<>>)

Str(s) == MkVal("str", s, 0, FALSE, <<>>)

Num(n) == MkVal("num", "", n, FALSE, <<>>)

Bool(b) == MkVal("bool", "", 0, b, <<>>)

Map(kids) == MkVal("map", "", 0, FALSE, kids)

List(kids) == MkVal("list", "", 0, FALSE, kids)

\* the outcome of a call that raised: s is "<exception type>: <message>"
Err(e) == MkVal("error", e, 0, FALSE, <<>>)

\* marks an optional field left out of a generated input (never a value)
Absent == MkVal("absent", "", 0, FALSE, <<>>)

Entry(k, v) == [k |-> k, v |-> v]

\* the list holding the values of sequence q
ListOf(q) == List([i \in 1..Len(q) |-> Entry("", q[i])])

IsErr(v) == v.t = "error"

IsDict(v) == v.t = "map"

IsList(v) == v.t = "list"

IsStr(v) == v.t = "str"

\* isinstance(v, (int, float)): bool is a subclass of int
IsNumber(v) == v.t \in {"num", "bool"}

\* key in d
Has(d, k) == \E i \in 1..Len(d.kids) : d.kids[i].k = k

\* d.get(k, dflt)
GetOr(d, k, dflt) == IF Has(d, k) THEN d.kids[CHOOSE i \in 1..Len(d.kids) : d.kids[i].k = k].v ELSE dflt

\* d.get(k)
Get(d, k) == GetOr(d, k, Null)

\* d[k] = v : an existing key keeps its place, a new key goes last
Put(d, k, v) == IF Has(d, k) THEN Map([i \in 1..Len(d.kids) |-> IF d.kids[i].k = k THEN Entry(k, v) ELSE d.kids[i]]) ELSE Map(Append(d.kids, Entry(k, v)))

RECURSIVE LStrip(_)
LStrip(s) == IF Len(s) > 0 /\ SubSeq(s, 1, 1) = " " THEN LStrip(SubSeq(s, 2, Len(s))) ELSE s

RECURSIVE RStrip(_)
RStrip(s) == IF Len(s) > 0 /\ SubSeq(s, Len(s), Len(s)) = " " THEN RStrip(SubSeq(s, 1, Len(s) - 1)) ELSE s

\* str.strip()
Strip(s) == RStrip(LStrip(s))

\* Python truthiness: bool(v)
Truthy(v) == CASE v.t = "null" -> FALSE [] v.t = "str" -> v.s # "" [] v.t = "num" -> v.n # 0 [] v.t = "bool" -> v.b [] OTHER -> v.kids # <<>>

(***************************************************************************)
(* _ultra_clean_for_api                                                    *)
(***************************************************************************)
\* mutant: empty dicts and lists pass as valid
is_valid_value_keeps_empty(value) == /\ value.t # "null"
                                     /\ ~(IsStr(value) /\ Strip(value.s) = "")

is_valid_value(value) == /\ value.t # "null"
                         /\ ~(IsStr(value) /\ Strip(value.s) = "")
                         /\ ~(value.t \in {"map", "list"} /\ value.kids = <<>>)

RECURSIVE clean_recursively(_)
RECURSIVE clean_entries(_, _)
RECURSIVE clean_entries_raw_check(_, _)
\* mutant: validity is tested on the value before it is cleaned
clean_entries_raw_check(kids, isDict) == IF kids = <<>> THEN <<>>
                                         ELSE LET e == Head(kids)
                                                  c == clean_recursively(e.v)
                                                  rest == clean_entries_raw_check(Tail(kids), isDict)
                                              IN IF (isDict /\ e.k = "") \/ ~is_valid_value(e.v) THEN rest ELSE <<Entry(e.k, c)>> \o rest

\* the loop over obj.items() / over obj: entries whose key is empty (dict
\* only) or whose cleaned value is not valid are left out
clean_entries(kids, isDict) == IF kids = <<>> THEN <<>>
                               ELSE LET e == Head(kids)
                                        c == clean_recursively(e.v)
                                        rest == clean_entries(Tail(kids), isDict)
                                    IN IF (isDict /\ e.k = "") \/ ~is_valid_value(c) THEN rest ELSE <<Entry(e.k, c)>> \o rest

clean_recursively(obj) == CASE IsDict(obj) -> Map(clean_entries(obj.kids, TRUE))
                            [] IsList(obj) -> List(clean_entries(obj.kids, FALSE))
                            [] OTHER -> IF is_valid_value(obj) THEN obj ELSE Null

CardKeepFields == <<"x", "y", "outputSuccess", "outputTrue", "outputFalse">>

\* the optional fields of one card that the post-pass carries over
RECURSIVE keep_fields(_, _)
keep_fields(card_data, fields) == IF fields = <<>> THEN <<>>
                                  ELSE LET f == Head(fields)
                                           rest == keep_fields(card_data, Tail(fields))
                                       IN IF Has(card_data, f) /\ is_valid_value(Get(card_data, f)) THEN <<Entry(f, Get(card_data, f))>> \o rest ELSE rest

clean_card(card_data) == Map(<<Entry("type", GetOr(card_data, "type", Str("action"))), Entry("id", GetOr(card_data, "id", Str("unknown"))), Entry("ownerUri", GetOr(card_data, "ownerUri", Str("homey:app:unknown")))>> \o keep_fields(card_data, CardKeepFields))

\* the loop building cleaned_cards
RECURSIVE clean_cards(_)
clean_cards(kids) == IF kids = <<>> THEN <<>>
                     ELSE LET e == Head(kids)
                              rest == clean_cards(Tail(kids))
                          IN IF e.k = "" \/ ~IsDict(e.v) THEN rest ELSE <<Entry(e.k, clean_card(e.v))>> \o rest

\* the "final safety check" on a dict result
flow_post_pass(result) == LET r1 == IF ~Truthy(Get(result, "name")) THEN Put(result, "name", Str("Unnamed Flow")) ELSE result
                              r2 == IF ~Has(r1, "cards") \/ ~IsDict(Get(r1, "cards")) THEN Put(r1, "cards", Map(<<>>)) ELSE r1
                          IN Put(r2, "cards", Map(clean_cards(Get(r2, "cards").kids)))

ultra_clean_for_api(data) == LET result == clean_recursively(data)
                             IN IF IsDict(result) THEN flow_post_pass(result) ELSE result

(***************************************************************************)
(* Python's repr() and str() of a value, as f-strings and str(item) use    *)
(* them.                                                                   *)
(***************************************************************************)
RECURSIVE Repr(_)
RECURSIVE ReprEntries(_, _)
ReprEntries(kids, isDict) == IF kids = <<>> THEN ""
                             ELSE LET e == Head(kids)
                                      one == IF isDict THEN "'" \o e.k \o "': " \o Repr(e.v) ELSE Repr(e.v)
                                  IN IF Tail(kids) = <<>> THEN one ELSE one \o ", " \o ReprEntries(Tail(kids), isDict)

Repr(v) == CASE v.t = "null" -> "None"
             [] v.t = "str" -> "'" \o v.s \o "'"
             [] v.t = "num" -> ToString(v.n)
             [] v.t = "bool" -> IF v.b THEN "True" ELSE "False"
             [] v.t = "map" -> "{" \o ReprEntries(v.kids, TRUE) \o "}"
             [] OTHER -> "[" \o ReprEntries(v.kids, FALSE) \o "]"

\* str(v), also what f"{v}" formats
PyStr(v) == IF IsStr(v) THEN v.s ELSE Repr(v)

(***************************************************************************)
(* uuid.uuid4(): a call draws its uuids from a stream u; draw j of stream  *)
(* "same" repeats one uuid (every random part collides), draw j of stream  *)
(* "fresh" differs from every other draw.                                  *)
(***************************************************************************)
UuidStreams == {"same", "fresh"}

\* uuid4().hex, 32 hexadecimal digits
UuidHex(u, j) == IF u = "same" THEN "a1b2c3d4e5f60718293a4b5c6d7e8f90" ELSE SubSeq(ToString(j) \o "f3a9c2e7b14d58a06c9e2f7d1b3a5c80", 1, 32)

\* str(uuid4()): 8-4-4-4-12
UuidStr(u, j) == LET h == UuidHex(u, j) IN SubSeq(h, 1, 8) \o "-" \o SubSeq(h, 9, 12) \o "-" \o SubSeq(h, 13, 16) \o "-" \o SubSeq(h, 17, 20) \o "-" \o SubSeq(h, 21, 32)

(***************************************************************************)
(* _sanitize_dict                                                          *)
(***************************************************************************)
RECURSIVE sanitize_dict(_)
RECURSIVE sanitize_list_items(_)
RECURSIVE sanitize_dict_items(_)
\* the loop over the items of a list value
sanitize_list_items(kids) == IF kids = <<>> THEN <<>>
                             ELSE LET item == Head(kids).v
                                      rest == sanitize_list_items(Tail(kids))
                                  IN CASE item.t = "null" -> rest
                                       [] IsDict(item) -> IF sanitize_dict(item).kids # <<>> THEN <<Entry("", sanitize_dict(item))>> \o rest ELSE rest
                                       [] IsStr(item) -> IF Strip(item.s) # "" THEN <<Entry("", Str(Strip(item.s)))>> \o rest ELSE rest
                                       [] OTHER -> <<Entry("", item)>> \o rest

\* the loop over data.items()
sanitize_dict_items(kids) == IF kids = <<>> THEN <<>>
                             ELSE LET key == Head(kids).k
                                      value == Head(kids).v
                                      rest == sanitize_dict_items(Tail(kids))
                                  IN CASE value.t = "null" -> rest
                                       [] IsStr(value) -> IF Strip(value.s) # "" THEN <<Entry(key, Str(Strip(value.s)))>> \o rest ELSE rest
                                       [] IsDict(value) -> IF sanitize_dict(value).kids # <<>> THEN <<Entry(key, sanitize_dict(value))>> \o rest ELSE rest
                                       [] IsList(value) -> IF sanitize_list_items(value.kids) # <<>> THEN <<Entry(key, List(sanitize_list_items(value.kids)))>> \o rest ELSE rest
                                       [] OTHER -> <<Entry(key, value)>> \o rest

sanitize_dict(data) == IF ~IsDict(data) THEN Map(<<>>) ELSE Map(sanitize_dict_items(data.kids))

(***************************************************************************)
(* _validate_advanced_flow_card                                            *)
(***************************************************************************)
CardTypes == {"trigger", "condition", "action", "delay", "any", "all", "note", "start"}

\* mutant: note is not a builtin type
BuiltinCardsWithoutNote == {"delay", "any", "all", "start"}

BuiltinCards == {"delay", "any", "all", "note", "start"}

ConnectionFields == {"outputSuccess", "outputTrue", "outputFalse", "outputError", "input"}

OptionalFields == <<"args", "outputSuccess", "outputTrue", "outputFalse", "outputError", "droptoken", "inverted", "input", "value", "color", "width", "height">>

\* [str(item) for item in value if item is not None]
RECURSIVE stringify_items(_)
stringify_items(kids) == IF kids = <<>> THEN <<>>
                         ELSE IF Head(kids).v.t = "null" THEN stringify_items(Tail(kids))
                         ELSE <<Entry("", Str(PyStr(Head(kids).v)))>> \o stringify_items(Tail(kids))

\* mutant: an optional field is carried over whatever its value
optional_field_unchecked(card, field) == IF Has(card, field) THEN <<Entry(field, Get(card, field))>> ELSE <<>>

\* what the optional-field loop adds for one field: an entry or nothing
optional_field(card, field) == LET value == Get(card, field)
                               IN IF ~Has(card, field) \/ value.t = "null" THEN <<>>
                                  ELSE CASE field \in ConnectionFields -> IF IsList(value) THEN <<Entry(field, List(stringify_items(value.kids)))>> ELSE <<>>
                                         [] field = "args" -> IF IsDict(value) THEN <<Entry(field, sanitize_dict(value))>> ELSE <<>>
                                         [] field \in {"droptoken", "value", "color"} -> IF IsStr(value) /\ Strip(value.s) # "" THEN <<Entry(field, Str(Strip(value.s)))>> ELSE <<>>
                                         [] field = "inverted" -> IF value.t = "bool" THEN <<Entry(field, value)>> ELSE <<>>
                                         [] OTHER -> IF IsNumber(value) THEN <<Entry(field, value)>> ELSE <<>>

RECURSIVE optional_fields(_, _)
optional_fields(card, fields) == IF fields = <<>> THEN <<>> ELSE optional_field(card, Head(fields)) \o optional_fields(card, Tail(fields))

\* the ownerUri / id entries of the validated card (requirements checked before)
owner_and_id(card, card_type) == IF card_type \notin BuiltinCards THEN <<Entry("ownerUri", Get(card, "ownerUri")), Entry("id", Get(card, "id"))>>
                                 ELSE (IF Has(card, "ownerUri") /\ Get(card, "ownerUri").t # "null" THEN <<Entry("ownerUri", Get(card, "ownerUri"))>> ELSE <<>>)
                                      \o (IF Has(card, "id") /\ Get(card, "id").t # "null" THEN <<Entry("id", Get(card, "id"))>> ELSE <<>>)

validate_advanced_flow_card(card) == LET card_type == Get(card, "type")
                                         tname == IF IsStr(card_type) THEN card_type.s ELSE ""
                                     IN CASE ~IsDict(card) -> Err("ValueError: Advanced flow card must be a dictionary")
                                          [] ~Has(card, "type") -> Err("ValueError: Advanced flow card missing required field: type")
                                          [] ~Has(card, "x") -> Err("ValueError: Advanced flow card missing required field: x")
                                          [] ~Has(card, "y") -> Err("ValueError: Advanced flow card missing required field: y")
                                          [] ~(IsStr(card_type) /\ card_type.s \in CardTypes) -> Err("ValueError: Invalid card type: " \o PyStr(card_type))
                                          [] ~IsNumber(Get(card, "x")) -> Err("ValueError: Card coordinate x must be a number")
                                          [] ~IsNumber(Get(card, "y")) -> Err("ValueError: Card coordinate y must be a number")
                                          [] tname \notin BuiltinCards /\ ~Has(card, "ownerUri") -> Err("ValueError: Advanced flow card of type '" \o tname \o "' missing required field: ownerUri")
                                          [] tname \notin BuiltinCards /\ ~Has(card, "id") -> Err("ValueError: Advanced flow card of type '" \o tname \o "' missing required field: id")
                                          [] OTHER -> Map(<<Entry("type", card_type), Entry("x", Get(card, "x")), Entry("y", Get(card, "y"))>> \o owner_and_id(card, tname) \o optional_fields(card, OptionalFields))

(***************************************************************************)
(* _convert_cards_array_to_object                                          *)
(***************************************************************************)
\* mutant: the position is left out of the generated id
card_id_without_index(cards, i, u) == PyStr(GetOr(cards.kids[i + 1].v, "type", Str("card"))) \o "_" \o SubSeq(UuidHex(u, i + 1), 1, 6)

\* card_ids[i]: f"{card_type}_{i}_{uuid.uuid4().hex[:6]}", i counted from 0
card_id_at(cards, i, u) == PyStr(GetOr(cards.kids[i + 1].v, "type", Str("card"))) \o "_" \o ToString(i) \o "_" \o SubSeq(UuidHex(u, i + 1), 1, 6)

\* mutant: every card is wired through outputSuccess
wire_field_always_success(card_copy) == "outputSuccess"

\* the output field auto-wiring uses for a card
wire_field(card_copy) == IF Get(card_copy, "type") = Str("condition") THEN "outputTrue" ELSE "outputSuccess"

\* mutant: the auto-wired edge replaces the one the author declared
add_connection_overwrite(card_copy, i, n, next_card_id) == IF i < n - 1 /\ Get(card_copy, "type") \notin {Str("end"), Str("note")}
                                                           THEN Put(card_copy, wire_field(card_copy), ListOf(<<Str(next_card_id)>>))
                                                           ELSE card_copy

\* mutant: a note or end card is wired like any other card
add_connection_terminal_wired(card_copy, i, n, next_card_id) == IF i < n - 1 /\ ~Has(card_copy, wire_field(card_copy))
                                                                THEN Put(card_copy, wire_field(card_copy), ListOf(<<Str(next_card_id)>>))
                                                                ELSE card_copy

\* "Add connections between consecutive cards (except for last card)"
add_connection(card_copy, i, n, next_card_id) == IF i < n - 1 /\ Get(card_copy, "type") \notin {Str("end"), Str("note")} /\ ~Has(card_copy, wire_field(card_copy))
                                                 THEN Put(card_copy, wire_field(card_copy), ListOf(<<Str(next_card_id)>>))
                                                 ELSE card_copy

\* the copy of the card at position i (from 0) with its position filled in
positioned(card, i) == LET c1 == IF ~Has(card, "x") THEN Put(card, "x", Num(50 + (i * 200))) ELSE card
                       IN IF ~Has(c1, "y") THEN Put(c1, "y", Num(100)) ELSE c1

\* cards_object[card_id] = card_copy: a repeated key overwrites in place
RECURSIVE cards_object(_, _, _)
cards_object(cards, n, u) == IF n = 0 THEN Map(<<>>)
                             ELSE LET i == n - 1
                                      total == Len(cards.kids)
                                      next_card_id == IF i < total - 1 THEN card_id_at(cards, i + 1, u) ELSE ""
                                  IN Put(cards_object(cards, n - 1, u), card_id_at(cards, i, u), add_connection(positioned(cards.kids[i + 1].v, i), i, total, next_card_id))

\* mutant: a flow whose cards are already an object is converted too, its
\* cards re-keyed in order
convert_cards_array_to_object_rekeys(flow_data, u) == LET cards == Get(flow_data, "cards")
                                                      IN IF ~IsDict(flow_data) \/ cards.t \notin {"list", "map"} THEN flow_data
                                                         ELSE IF \E i \in 1..Len(cards.kids) : ~IsDict(cards.kids[i].v) THEN Err("AttributeError: object has no attribute 'get'")
                                                         ELSE Put(flow_data, "cards", cards_object(cards, Len(cards.kids), u))

\* card.get on an entry that is no dict raises AttributeError
convert_cards_array_to_object(flow_data, u) == LET cards == Get(flow_data, "cards")
                                               IN IF ~IsDict(flow_data) \/ ~IsList(cards) THEN flow_data
                                                  ELSE IF \E i \in 1..Len(cards.kids) : ~IsDict(cards.kids[i].v) THEN Err("AttributeError: object has no attribute 'get'")
                                                  ELSE Put(flow_data, "cards", cards_object(cards, Len(cards.kids), u))

\* line 1132, card_copy = card.copy(): the object the converter writes x, y
\* and the edge to is a new dict, not the caller's card
\* mutant: card_copy is the caller's card itself
card_copy_object_is_card == "card"

card_copy_object == "new dict"

\* line 1156, flow_data_copy = flow_data.copy(): the object that receives the
\* cards object is a new dict, not the caller's flow map
flow_data_copy_object == "new dict"

\* the caller's flow map, its cards list and its card objects as the caller
\* sees them when the converter has returned converted (the first loop raises
\* before anything is written)
caller_flow_after_convert(flow_data, converted, u) == LET cards == Get(flow_data, "cards")
                                                          written(i) == Get(Get(converted, "cards"), card_id_at(cards, i - 1, u))
                                                          card_after(i) == IF card_copy_object = "card" THEN written(i) ELSE cards.kids[i].v
                                                      IN IF ~IsDict(flow_data) \/ ~IsList(cards) \/ IsErr(converted) THEN flow_data
                                                         ELSE IF flow_data_copy_object = "flow_data" THEN Put(flow_data, "cards", Get(converted, "cards"))
                                                         ELSE Put(flow_data, "cards", ListOf([i \in 1..Len(cards.kids) |-> card_after(i)]))

(***************************************************************************)
(* _sanitize_advanced_flow_data                                            *)
(***************************************************************************)
\* mutant: any string passes as a name
ValidNameAnyString(name) == IsStr(name)

ValidName(name) == IsStr(name) /\ Strip(name.s) # ""

\* the loop over cards.items(): the first card that fails validation raises,
\* an entry that is no dict is skipped
RECURSIVE sanitized_cards(_)
sanitized_cards(kids) == IF kids = <<>> THEN Map(<<>>)
                         ELSE LET done == sanitized_cards(SubSeq(kids, 1, Len(kids) - 1))
                                      e == kids[Len(kids)]
                                  validated_card == validate_advanced_flow_card(e.v)
                              IN IF IsErr(done) \/ ~IsDict(e.v) THEN done
                                 ELSE IF IsErr(validated_card) THEN validated_card
                                 ELSE Put(done, e.k, validated_card)

\* bool(v) if v is not None, for the optional boolean fields
OptBool(flow_data, k) == IF Get(flow_data, k).t # "null" THEN <<Entry(k, Bool(Truthy(Get(flow_data, k))))>> ELSE <<>>

OptFolder(flow_data) == IF IsStr(Get(flow_data, "folder")) /\ Strip(Get(flow_data, "folder").s) # "" THEN <<Entry("folder", Str(Strip(Get(flow_data, "folder").s)))>> ELSE <<>>

\* j is the index of the uuid4() draw the fallback name would use
sanitize_advanced_flow_data(flow_data, u, j) == LET name == Get(flow_data, "name")
                                                    enabled == Get(flow_data, "enabled")
                                                    cards == Get(flow_data, "cards")
                                                    newname == IF ValidName(name) THEN Str(Strip(name.s)) ELSE Str("Advanced Flow " \o SubSeq(UuidStr(u, j), 1, 8))
                                                    newenabled == IF enabled.t # "null" THEN Bool(Truthy(enabled)) ELSE Bool(TRUE)
                                                    newcards == sanitized_cards(cards.kids)
                                                IN IF ~IsDict(flow_data) \/ flow_data.kids = <<>> THEN Err("ValueError: Advanced flow data must be a valid dictionary")
                                                   ELSE IF ~IsDict(cards) \/ cards.kids = <<>> THEN Err("ValueError: Advanced flow must have at least one card as object with card IDs as keys")
                                                   ELSE IF IsErr(newcards) THEN newcards
                                                   ELSE IF newcards.kids = <<>> THEN Err("ValueError: Advanced flow must have at least one valid card")
                                                   ELSE Map(<<Entry("name", newname), Entry("enabled", newenabled)>> \o OptBool(flow_data, "triggerable") \o OptBool(flow_data, "broken") \o <<Entry("cards", newcards)>> \o OptFolder(flow_data))

(***************************************************************************)
(* _get_available_cards, _validate_flow_card, _sanitize_flow_data          *)
(***************************************************************************)
\* one listed card; of a listed card the validator reads id and uri only
Listed(id, uri) == Map(<<Entry("id", Str(id)), Entry("uri", Str(uri))>>)

\* the listings get_flow_card_triggers/conditions/actions return in demo mode
DemoListings == [triggers |-> ListOf(<<Listed("time_schedule", "homey:app:com.athom.scheduler"), Listed("device_turned_on", "homey:manager:device"), Listed("sunset", "homey:app:com.athom.sun"), Listed("motion_detected", "homey:device:sensor")>>),
                 conditions |-> ListOf(<<Listed("time_between", "homey:app:com.athom.time"), Listed("device_is_on", "homey:manager:device"), Listed("presence_home", "homey:app:com.athom.presence")>>),
                 actions |-> ListOf(<<Listed("turn_on_device", "homey:manager:device"), Listed("turn_off_device", "homey:manager:device"), Listed("send_notification", "homey:app:com.athom.notifications"), Listed("set_thermostat", "homey:device:thermostat")>>)]

\* listings a hub may return: cards with id and uri, with a uri only, with
\* neither
HubListings == [triggers |-> ListOf(<<Listed("sunset", "homey:app:com.athom.sun"), Map(<<Entry("uri", Str("homey:app:x:t"))>>)>>),
                conditions |-> ListOf(<<Map(<<Entry("title", Str("Untitled"))>>), Listed("device_is_on", "homey:manager:device")>>),
                actions |-> ListOf(<<Listed("turn_on_device", "homey:manager:device")>>)]

\* {card.get('id', card.get('uri', f'{kind}_{i}')): card for i, card in enumerate(listing)}
RECURSIVE index_cards(_, _, _)
index_cards(listing, kind, n) == IF n = 0 THEN Map(<<>>)
                                 ELSE LET card == listing.kids[n].v
                                          key == GetOr(card, "id", GetOr(card, "uri", Str(kind \o "_" \o ToString(n - 1))))
                                      IN Put(index_cards(listing, kind, n - 1), PyStr(key), card)

EmptyCatalog == Map(<<Entry("triggers", Map(<<>>)), Entry("conditions", Map(<<>>)), Entry("actions", Map(<<>>))>>)

\* the catalog built from three listings
catalog_of(l) == Map(<<Entry("triggers", index_cards(l.triggers, "trigger", Len(l.triggers.kids))), Entry("conditions", index_cards(l.conditions, "condition", Len(l.conditions.kids))), Entry("actions", index_cards(l.actions, "action", Len(l.actions.kids)))>>)

\* what a fetch of the three listings ends in: "ok", or "fail" when one of
\* the requests raises (live mode only)
FetchOutcomes == {"ok", "fail"}

\* mutant: the card listings are requested from the hub in demo mode too
requests_listings_in_demo(cached, m) == cached.t = "null"

\* _get_available_cards sends requests to the hub: nothing is cached and
\* the card listings are not the built-in demo data
requests_listings(cached, m) == cached.t = "null" /\ m = "live"

\* the value of self._cached_cards after _get_available_cards ran once
get_available_cards(cached, m, fetch) == IF cached.t # "null" THEN cached
                                         ELSE IF m = "demo" THEN catalog_of(DemoListings)
                                         ELSE IF fetch = "ok" THEN catalog_of(HubListings)
                                         ELSE EmptyCatalog

\* the copy loop for a card found in the catalog
RECURSIVE copy_non_null(_)
copy_non_null(kids) == IF kids = <<>> THEN <<>>
                       ELSE IF Head(kids).k \notin {"id", "uri"} /\ Head(kids).v.t # "null" THEN <<Head(kids)>> \o copy_non_null(Tail(kids))
                       ELSE copy_non_null(Tail(kids))

\* validated_card for a card found in the catalog
matched_card(card, card_id, card_uri, matching_card) == Map(<<Entry("id", IF Truthy(card_id) THEN card_id ELSE GetOr(matching_card, "id", Str("unknown"))), Entry("uri", IF Truthy(card_uri) THEN card_uri ELSE GetOr(matching_card, "uri", Str("")))>> \o copy_non_null(card.kids))

\* x in d for a dict d with string keys: an unhashable x raises TypeError
Unhashable(x) == x.t \in {"map", "list"}

InKeys(x, d) == IsStr(x) /\ Has(d, x.s)

\* mutant: a card that is not in the catalog is rejected
validate_flow_card_strict(card, card_type, available_cards) == LET available_type_cards == GetOr(available_cards, card_type \o "s", Map(<<>>))
                                                                   card_id == Get(card, "id")
                                                                   card_uri == Get(card, "uri")
                                                               IN IF ~IsDict(card) THEN Err("ValueError: Flow " \o card_type \o " must be a dictionary")
                                                                  ELSE IF ~Truthy(card_id) /\ ~Truthy(card_uri) THEN Err("ValueError: Flow " \o card_type \o " must have either 'id' or 'uri' field")
                                                                  ELSE IF Truthy(card_id) /\ Unhashable(card_id) THEN Err("TypeError: unhashable type")
                                                                  ELSE IF Truthy(card_id) /\ InKeys(card_id, available_type_cards) THEN matched_card(card, card_id, card_uri, Get(available_type_cards, card_id.s))
                                                                  ELSE IF Truthy(card_uri) /\ Unhashable(card_uri) THEN Err("TypeError: unhashable type")
                                                                  ELSE IF Truthy(card_uri) /\ InKeys(card_uri, available_type_cards) THEN matched_card(card, card_id, card_uri, Get(available_type_cards, card_uri.s))
                                                                  ELSE Err("ValueError: Unknown " \o card_type \o " card")

validate_flow_card(card, card_type, available_cards) == LET available_type_cards == GetOr(available_cards, card_type \o "s", Map(<<>>))
                                                            card_id == Get(card, "id")
                                                            card_uri == Get(card, "uri")
                                                        IN IF ~IsDict(card) THEN Err("ValueError: Flow " \o card_type \o " must be a dictionary")
                                                           ELSE IF ~Truthy(card_id) /\ ~Truthy(card_uri) THEN Err("ValueError: Flow " \o card_type \o " must have either 'id' or 'uri' field")
                                                           ELSE IF Truthy(card_id) /\ Unhashable(card_id) THEN Err("TypeError: unhashable type")
                                                           ELSE IF Truthy(card_id) /\ InKeys(card_id, available_type_cards) THEN matched_card(card, card_id, card_uri, Get(available_type_cards, card_id.s))
                                                           ELSE IF Truthy(card_uri) /\ Unhashable(card_uri) THEN Err("TypeError: unhashable type")
                                                           ELSE IF Truthy(card_uri) /\ InKeys(card_uri, available_type_cards) THEN matched_card(card, card_id, card_uri, Get(available_type_cards, card_uri.s))
                                                           ELSE sanitize_dict(card)

\* the loops over actions / conditions: an entry that is no dict is skipped,
\* the first dict that fails validation raises
RECURSIVE validate_each(_, _, _)
validate_each(kids, card_type, available_cards) == IF kids = <<>> THEN ListOf(<<>>)
                                                   ELSE LET done == validate_each(SubSeq(kids, 1, Len(kids) - 1), card_type, available_cards)
                                                            item == kids[Len(kids)].v
                                                            validated == validate_flow_card(item, card_type, available_cards)
                                                        IN IF IsErr(done) \/ ~IsDict(item) THEN done
                                                           ELSE IF IsErr(validated) THEN validated
                                                           ELSE List(Append(done.kids, Entry("", validated)))

\* whether _sanitize_flow_data gets as far as its first _validate_flow_card
\* call, the one that loads the catalog
ReachesValidation(flow_data) == IsDict(flow_data) /\ flow_data.kids # <<>> /\ IsDict(Get(flow_data, "trigger")) /\ Get(flow_data, "trigger").kids # <<>>

\* u is the uuid stream of the call; the fallback name uses its first draw
sanitize_flow_data(flow_data, available_cards, u) == LET name == Get(flow_data, "name")
                                                         enabled == Get(flow_data, "enabled")
                                                         trigger == Get(flow_data, "trigger")
                                                         actions == Get(flow_data, "actions")
                                                         conditions == GetOr(flow_data, "conditions", ListOf(<<>>))
                                                         newname == IF ValidName(name) THEN Str(Strip(name.s)) ELSE Str("Flow " \o SubSeq(UuidStr(u, 1), 1, 8))
                                                         newenabled == IF enabled.t # "null" THEN Bool(Truthy(enabled)) ELSE Bool(TRUE)
                                                         newtrigger == validate_flow_card(trigger, "trigger", available_cards)
                                                         newactions == validate_each(actions.kids, "action", available_cards)
                                                         newconditions == IF IsList(conditions) THEN validate_each(conditions.kids, "condition", available_cards) ELSE ListOf(<<>>)
                                                     IN IF ~IsDict(flow_data) \/ flow_data.kids = <<>> THEN Err("ValueError: Flow data must be a valid dictionary")
                                                        ELSE IF ~IsDict(trigger) \/ trigger.kids = <<>> THEN Err("ValueError: Flow trigger must be a valid dictionary")
                                                        ELSE IF IsErr(newtrigger) THEN newtrigger
                                                        ELSE IF ~IsList(actions) \/ actions.kids = <<>> THEN Err("ValueError: Flow must have at least one action")
                                                        ELSE IF IsErr(newactions) THEN newactions
                                                        ELSE IF newactions.kids = <<>> THEN Err("ValueError: Flow must have at least one valid action")
                                                        ELSE IF IsErr(newconditions) THEN newconditions
                                                        ELSE Map(<<Entry("name", newname), Entry("enabled", newenabled), Entry("trigger", newtrigger), Entry("actions", newactions), Entry("conditions", newconditions)>> \o OptFolder(flow_data))

(***************************************************************************)
(* _sanitize_folder_data                                                   *)
(***************************************************************************)
\* mutant: parent is passed on untrimmed whenever it is a string
sanitize_folder_data_raw_parent(name, parent) == IF ~ValidName(name) THEN Err("ValueError: Folder name must be a non-empty string")
                                                 ELSE Map(<<Entry("name", Str(Strip(name.s)))>> \o (IF IsStr(parent) THEN <<Entry("parent", parent)>> ELSE <<>>))

\* parent is None when the caller leaves it out
sanitize_folder_data(name, parent) == IF ~ValidName(name) THEN Err("ValueError: Folder name must be a non-empty string")
                                      ELSE Map(<<Entry("name", Str(Strip(name.s)))>> \o (IF IsStr(parent) /\ Strip(parent.s) # "" THEN <<Entry("parent", Str(Strip(parent.s)))>> ELSE <<>>))

(***************************************************************************)
(* The messages a call passes to logger.warning, in order.                 *)
(***************************************************************************)
\* mutant: the warning is logged for a valid name as well
flow_name_warning_always(flow_data, u) == <<"Fixed invalid flow name: " \o PyStr(Get(flow_data, "name")) \o " -> Flow " \o SubSeq(UuidStr(u, 1), 1, 8)>>

\* line 853: logged when _sanitize_flow_data replaces the name
flow_name_warning(flow_data, u) == IF ValidName(Get(flow_data, "name")) THEN <<>>
                                   ELSE <<"Fixed invalid flow name: " \o PyStr(Get(flow_data, "name")) \o " -> Flow " \o SubSeq(UuidStr(u, 1), 1, 8)>>

\* line 910: logged when _sanitize_advanced_flow_data replaces the name
advanced_flow_name_warning(flow_data, u, j) == IF ~IsDict(flow_data) \/ flow_data.kids = <<>> \/ ValidName(Get(flow_data, "name")) THEN <<>>
                                               ELSE <<"Fixed invalid advanced flow name: " \o Repr(Get(flow_data, "name")) \o " -> Advanced Flow " \o SubSeq(UuidStr(u, j), 1, 8)>>

\* line 983: logged when loading the catalog fails
catalog_warning(cached, m, fetch) == IF cached.t = "null" /\ m = "live" /\ fetch = "fail" THEN <<"Could not load available flow cards">> ELSE <<>>

\* line 1012: logged when a card with an id or uri is not in the catalog
unknown_card_warning(card, card_type, available_cards) == LET available_type_cards == GetOr(available_cards, card_type \o "s", Map(<<>>))
                                                              card_id == Get(card, "id")
                                                              card_uri == Get(card, "uri")
                                                              found == (Truthy(card_id) /\ InKeys(card_id, available_type_cards)) \/ (Truthy(card_uri) /\ InKeys(card_uri, available_type_cards))
                                                          IN IF IsErr(validate_flow_card(card, card_type, available_cards)) \/ found THEN <<>>
                                                             ELSE <<"Unknown " \o card_type \o " card: " \o PyStr(IF Truthy(card_id) THEN card_id ELSE card_uri) \o ". This may cause flow issues.">>

\* the warnings of the loops over actions / conditions, up to the first
\* card that fails validation
RECURSIVE validate_each_warnings(_, _, _)
validate_each_warnings(kids, card_type, available_cards) == IF kids = <<>> THEN <<>>
                                                            ELSE LET item == Head(kids).v
                                                                 IN IF ~IsDict(item) THEN validate_each_warnings(Tail(kids), card_type, available_cards)
                                                                    ELSE IF IsErr(validate_flow_card(item, card_type, available_cards)) THEN <<>>
                                                                    ELSE unknown_card_warning(item, card_type, available_cards) \o validate_each_warnings(Tail(kids), card_type, available_cards)

\* every warning of one _sanitize_flow_data call; cached is the catalog cache
\* before the call, available_cards the catalog the call validates against
sanitize_flow_warnings(flow_data, cached, m, fetch, available_cards, u) == LET trigger == Get(flow_data, "trigger")
                                                                               actions == Get(flow_data, "actions")
                                                                               conditions == GetOr(flow_data, "conditions", ListOf(<<>>))
                                                                               newactions == validate_each(actions.kids, "action", available_cards)
                                                                               w1 == flow_name_warning(flow_data, u)
                                                                               w2 == w1 \o catalog_warning(cached, m, fetch) \o unknown_card_warning(trigger, "trigger", available_cards)
                                                                               w3 == w2 \o validate_each_warnings(actions.kids, "action", available_cards)
                                                                           IN IF ~IsDict(flow_data) \/ flow_data.kids = <<>> THEN <<>>
                                                                              ELSE IF ~IsDict(trigger) \/ trigger.kids = <<>> THEN w1
                                                                              ELSE IF IsErr(validate_flow_card(trigger, "trigger", available_cards)) \/ ~IsList(actions) \/ actions.kids = <<>> THEN w2
                                                                              ELSE IF IsErr(newactions) \/ newactions.kids = <<>> \/ ~IsList(conditions) THEN w3
                                                                              ELSE w3 \o validate_each_warnings(conditions.kids, "condition", available_cards)

(***************************************************************************)
(* Inputs.                                                                 *)
(***************************************************************************)
SeqsUpTo(S, n) == UNION {[1..k -> S] : k \in 0..n}

DistinctKeys(q) == \A i, j \in 1..Len(q) : q[i].k = q[j].k => i = j

\* every list of at most n values of S
Lists(S, n) == {ListOf(q) : q \in SeqsUpTo(S, n)}

\* every dict of at most n entries with keys of K and values of S
Maps(K, S, n) == {Map(q) : q \in {p \in SeqsUpTo([k : K, v : S], n) : DistinctKeys(p)}}

\* an optional field of a generated dict
Field(k, v) == IF v = Absent THEN <<>> ELSE <<Entry(k, v)>>

Atoms == {Null, Str(" "), Str("a"), Num(0)}

GenericKeys == {"", "k"}

Level1 == Atoms \cup Lists(Atoms, MaxLen) \cup Maps(GenericKeys, Atoms, MaxLen)

\* values nested two deep
Level2 == Level1 \cup {ListOf(<<v>>) : v \in Level1} \cup {Map(<<Entry("k", v)>>) : v \in Level1}

\* cards as a hub may store them
StoredCards == {Map(Field("type", t) \o io \o Field("x", x) \o Field("y", y) \o Field("outputSuccess", o) \o Field("outputError", e) \o Field("args", a)) :
                  t \in {Absent, Null, Str("trigger")},
                  io \in {<<>>, <<Entry("id", Str("c"))>>, <<Entry("id", Str("c")), Entry("ownerUri", Str("homey:app:x"))>>},
                  x \in {Absent, Null, Num(0)},
                  y \in {Absent, Num(100)},
                  o \in {Absent, ListOf(<<>>), ListOf(<<Null>>), ListOf(<<Str("c2")>>)},
                  e \in {Absent, ListOf(<<Str("c2")>>)},
                  a \in {Absent, Map(<<Entry("k", Null)>>)}}

FewStoredCards == {Null, Str("x"), Map(<<>>), Map(<<Entry("type", Str("action")), Entry("x", Num(0))>>)}

StoredCardMaps == {Map(<<Entry(k, c)>>) : k \in {"c1"}, c \in StoredCards} \cup Maps({"", "c1", "c2"}, FewStoredCards, MaxLen)

StoredNames == {Absent, Null, Str(""), Str(" "), Str("My Flow"), Num(0), Bool(FALSE)}

\* flow records as a hub may store them
StoredFlows == {Map(Field("name", n) \o Field("cards", c)) : n \in StoredNames, c \in {Absent, Null, Str("x"), ListOf(<<Null>>)} \cup StoredCardMaps}

CleanInputs == Level2 \cup StoredFlows

\* cards an author may put in a cards list
OwnerId == <<Entry("ownerUri", Str("homey:app:x")), Entry("id", Str("cap"))>>

CardTrigger == Map(<<Entry("type", Str("trigger"))>> \o OwnerId)

CardCondition == Map(<<Entry("type", Str("condition"))>> \o OwnerId)

CardAction == Map(<<Entry("type", Str("action"))>> \o OwnerId \o <<Entry("x", Num(10)), Entry("y", Num(20))>>)

CardNote == Map(<<Entry("type", Str("note")), Entry("value", Str(" hi "))>>)

CardConditionWired == Map(<<Entry("type", Str("condition"))>> \o OwnerId \o <<Entry("outputTrue", ListOf(<<Str("custom")>>))>>)

ChainCards == {CardTrigger, CardCondition, CardAction, CardNote, CardConditionWired}

ConvCards == ChainCards \cup
             {Map(<<Entry("type", Str("delay")), Entry("args", Map(<<Entry("delay", Num(5)), Entry("k", Null)>>))>>),
              Map(<<Entry("type", Str("action"))>> \o OwnerId \o <<Entry("outputSuccess", Null)>>),
              Map(<<Entry("type", Str("trigger"))>> \o OwnerId \o <<Entry("outputFalse", ListOf(<<Str("custom")>>))>>),
              Map(<<Entry("type", Str("condition"))>> \o OwnerId \o <<Entry("outputSuccess", ListOf(<<Str("custom")>>))>>),
              Map(<<Entry("type", Str("action"))>>),
              Map(<<Entry("type", Str("action")), Entry("ownerUri", Null), Entry("id", Str("cap"))>>),
              Map(<<Entry("type", Str("end"))>>),
              Map(<<>>),
              Null,
              Str("x")}

\* cards an author may put in a cards object, under the keys "a" and "b"
Pos == <<Entry("x", Num(0)), Entry("y", Num(0))>>

MapCards == {CardAction, CardTrigger, Null, Str("x"),
             Map(<<Entry("type", Str("delay"))>> \o Pos),
             Map(<<Entry("type", Str("delay"))>> \o Pos \o <<Entry("outputSuccess", ListOf(<<Str("b")>>))>>),
             Map(<<Entry("type", Str("delay"))>> \o Pos \o <<Entry("outputSuccess", ListOf(<<Str("ghost"), Null, Num(7)>>))>>),
             Map(<<Entry("type", Str("note"))>> \o Pos \o <<Entry("value", Str(" hi ")), Entry("color", Num(5)), Entry("extra", Str("e"))>>),
             Map(<<Entry("type", Str("condition"))>> \o OwnerId \o Pos \o <<Entry("inverted", Bool(TRUE)), Entry("args", Map(<<Entry("k", Str(" v ")), Entry("z", Null)>>))>>),
             Map(<<Entry("type", Str("action")), Entry("ownerUri", Null), Entry("id", Str("cap"))>> \o Pos),
             Map(<<Entry("type", Str("bogus"))>> \o Pos)}

GoodCards == ListOf(<<CardTrigger, CardCondition, CardAction>>)

\* the arguments of create_advanced_flow
AdvancedFlows == {Null, Str("x"), Map(<<>>)}
                 \cup {Map(Field("name", n) \o Field("enabled", e) \o Field("triggerable", t) \o <<Entry("cards", GoodCards)>> \o Field("folder", f)) :
                         n \in {Absent, Null, Str(" Night "), Str(" "), Num(5)},
                         e \in {Absent, Null, Num(0), Bool(TRUE)},
                         t \in {Absent, Bool(FALSE)},
                         f \in {Absent, Null, Str(" f1 ")}}
                 \cup {Map(<<Entry("name", Str("Night"))>> \o Field("cards", c)) :
                         c \in {Absent, Null, Str("x")} \cup Lists(ConvCards, MaxLen) \cup Lists(ChainCards, MaxCards) \cup Maps({"a", "b"}, MapCards, MaxLen)}

\* trigger / action / condition cards an author may send
BasicCards == {Map(<<Entry("id", Str("sunset")), Entry("args", Map(<<Entry("offset", Null)>>))>>),
               Map(<<Entry("id", Str("turn_on_device")), Entry("uri", Str(" homey:manager:device ")), Entry("args", Map(<<Entry("device", Str(" lamp ")), Entry("dim", Null)>>))>>),
               Map(<<Entry("id", Str("device_is_on")), Entry("droptoken", Null)>>),
               Map(<<Entry("id", Str("custom_card")), Entry("args", Map(<<Entry("k", Null)>>))>>),
               Map(<<Entry("uri", Str("homey:app:x:t")), Entry("tags", ListOf(<<ListOf(<<Null>>)>>))>>),
               Map(<<Entry("id", Null), Entry("uri", Str(""))>>),
               Map(<<Entry("id", Str(" "))>>),
               Map(<<Entry("id", ListOf(<<Str("a")>>))>>),
               Map(<<>>),
               Null,
               Str("x")}

GoodTrigger == Map(<<Entry("id", Str("sunset"))>>)

GoodActions == ListOf(<<Map(<<Entry("id", Str("turn_on_device"))>>)>>)

\* the arguments of create_flow
BasicFlows == {Null, Str("x"), Map(<<>>)}
              \cup {Map(Field("name", n) \o Field("enabled", e) \o <<Entry("trigger", GoodTrigger), Entry("actions", GoodActions)>> \o Field("folder", f)) :
                      n \in {Absent, Null, Str(" Morning "), Str(" "), Num(5)},
                      e \in {Absent, Null, Num(0), Bool(TRUE)},
                      f \in {Absent, Null, Str(" f1 ")}}
              \cup {Map(<<Entry("name", Str("Morning"))>> \o Field("trigger", t) \o Field("actions", a)) :
                      t \in {Absent} \cup BasicCards,
                      a \in {Absent, Null, Str("x")} \cup Lists(BasicCards, MaxLen)}
              \cup {Map(<<Entry("name", Str("Morning")), Entry("trigger", GoodTrigger), Entry("actions", GoodActions)>> \o Field("conditions", c)) :
                      c \in {Null, Str("x")} \cup Lists(BasicCards, MaxLen)}

\* cards handed to _validate_advanced_flow_card: every combination of the
\* required fields present, missing and ill-typed
RequiredFieldCards == {Map(Field("type", t) \o Field("x", x) \o Field("y", y) \o Field("ownerUri", o) \o Field("id", i)) :
                         t \in {Absent, Null, Num(5), Str("bogus"), Str("end"), Str("trigger"), Str("condition"), Str("note"), Str("delay")},
                         x \in {Absent, Null, Str("1"), Num(0), Bool(TRUE)},
                         y \in {Absent, ListOf(<<>>), Num(100)},
                         o \in {Absent, Null, Str("homey:app:x")},
                         i \in {Absent, Str("cap")}}

\* values an author may put in an optional or unknown field
FieldValues == {Null, Str(" v "), Str(" "), Num(3), Bool(TRUE), ListOf(<<Str("n1"), Null, Num(7)>>), Map(<<Entry("k", Str(" v ")), Entry("z", Null)>>), Map(<<>>)}

\* sound cards, one builtin and one not, with one more field
OptionalFieldCards == {Map(base \o <<Entry(f, v)>>) :
                         base \in {<<Entry("type", Str("note"))>> \o Pos, <<Entry("type", Str("action"))>> \o OwnerId \o Pos, <<Entry("type", Str("action"))>> \o Pos},
                         f \in {OptionalFields[k] : k \in 1..Len(OptionalFields)} \cup {"extra", "title"},
                         v \in FieldValues}

ValidatorCards == RequiredFieldCards \cup OptionalFieldCards \cup {Null, Str("x"), ListOf(<<Str("type")>>)}

\* the arguments of create_flow_folder
FolderNames == {Null, Str(""), Str(" "), Str(" Lights "), Str("Attic"), Num(5), Bool(TRUE), ListOf(<<Str("a")>>)}

FolderParents == {Null, Str(""), Str(" "), Str(" p1 "), Num(7), Map(<<Entry("id", Str("p1"))>>)}

\* flow records in a hub's answer, sound and corrupt
HubRecords == {Null, Str("oops"), Num(0), ListOf(<<>>), Map(<<>>)}
              \cup {Map(<<Entry("id", Str("f1"))>> \o Field("name", n) \o Field("cards", c)) :
                      n \in StoredNames,
                      c \in {Absent, Null, Map(<<Entry("c1", Null), Entry("c2", Map(<<Entry("type", Str("action")), Entry("id", Null), Entry("x", Num(0))>>))>>)}}

\* the JSON body of the hub's answer to a listing request
ListingBodies == Maps({"f1", "f2"}, HubRecords, MaxLen) \cup {Null, Str("oops")} \cup {ListOf(<<r>>) : r \in HubRecords}

FlowIds == {Null, Str(" "), Str(" f1 ")}

FlowKinds == {"flow", "advancedflow"}

\* how the hub answers a request: an HTTP status, or "down" when the
\* request itself fails
HubReplies == {"200", "400", "422", "500", "down"}

(***************************************************************************)
(* Operations.                                                             *)
(***************************************************************************)
\* tasks that call _get_available_cards on one FlowAPI
Callers == 1..MaxCallers

\* the three card listings of the hub
Listings == {"triggers", "conditions", "actions"}

Init == /\ op = "idle"
        /\ arg = Null
        /\ mid = Null
        /\ san = Null
        /\ ret = Null
        /\ posted = <<>>
        /\ mode \in {"live", "demo"}
        /\ cachedCards = Null
        /\ warnings = <<>>
        /\ callerArg = Null
        /\ sessionUsed = FALSE
        /\ callers = [c \in Callers |-> "idle"]
        /\ listingRequests = [l \in Listings |-> 0]

\* a call of _ultra_clean_for_api(data)
UltraClean == /\ op = "idle"
              /\ \E data \in CleanInputs :
                   /\ arg' = data
                   /\ ret' = ultra_clean_for_api(data)
              /\ callerArg' = arg'
              /\ op' = "ultra_clean"
              /\ UNCHANGED <<mid, san, posted, mode, cachedCards, warnings, sessionUsed, callers, listingRequests>>

\* a second call, on the value the first call returned
UltraCleanAgain == /\ op = "ultra_clean"
                   /\ arg' = ret
                   /\ ret' = ultra_clean_for_api(ret)
                   /\ callerArg' = arg'
                   /\ op' = "ultra_clean_again"
                   /\ UNCHANGED <<mid, san, posted, mode, cachedCards, warnings, sessionUsed, callers, listingRequests>>

\* the number of uuid4() draws the converter makes for flow_data
ConvertDraws(flow_data) == IF IsDict(flow_data) /\ IsList(Get(flow_data, "cards")) THEN Len(Get(flow_data, "cards").kids) ELSE 0

Request(method, url, json) == [method |-> method, url |-> url, json |-> json]

\* what create_advanced_flow returns or raises once the hub has answered
advanced_flow_reply(reply, clean_data, u, j) == CASE reply = "200" -> Put(clean_data, "id", Str(UuidStr(u, j)))
                                                  [] reply = "400" -> Err("ValueError: Invalid advanced flow data")
                                                  [] reply = "422" -> Err("ValueError: Advanced flow validation failed")
                                                  [] reply = "500" -> Err("HTTPStatusError: 500")
                                                  [] OTHER -> Err("ConnectError: hub unreachable")

\* the flow create_advanced_flow returns in demo mode
demo_advanced_flow(sanitized_data, u, j) == Map(<<Entry("id", Str(UuidStr(u, j))), Entry("name", Get(sanitized_data, "name")), Entry("enabled", Get(sanitized_data, "enabled")), Entry("broken", Bool(FALSE)), Entry("folder", Get(sanitized_data, "folder")), Entry("cards", Get(sanitized_data, "cards"))>>)

\* a call of create_advanced_flow(flow_data)
CreateAdvancedFlow == /\ op = "idle"
                      /\ \E flow_data \in AdvancedFlows, u \in UuidStreams :
                           /\ arg' = flow_data
                           /\ mid' = convert_cards_array_to_object(flow_data, u)
                           /\ san' = IF IsErr(mid') THEN mid' ELSE sanitize_advanced_flow_data(mid', u, ConvertDraws(flow_data) + 1)
                           /\ IF IsErr(san')
                              THEN ret' = san' /\ posted' = <<>>
                              ELSE IF mode = "demo"
                              THEN ret' = demo_advanced_flow(san', u, ConvertDraws(flow_data) + 2) /\ posted' = <<>>
                              ELSE /\ posted' = <<Request("POST", "/api/manager/flow/advancedflow", Map(<<Entry("advancedflow", ultra_clean_for_api(san'))>>))>>
                                   /\ \E reply \in HubReplies : ret' = advanced_flow_reply(reply, Get(posted'[1].json, "advancedflow"), u, ConvertDraws(flow_data) + 2)
                           /\ warnings' = IF IsErr(mid') THEN <<>> ELSE advanced_flow_name_warning(mid', u, ConvertDraws(flow_data) + 1)
                           /\ callerArg' = caller_flow_after_convert(flow_data, mid', u)
                      /\ sessionUsed' = (posted' # <<>>)
                      /\ op' = "create_advanced_flow"
                      /\ UNCHANGED <<mode, cachedCards, callers, listingRequests>>

\* _convert_cards_array_to_object and _sanitize_advanced_flow_data applied to
\* the flow they returned
NormalizeAgain == /\ op = "create_advanced_flow"
                  /\ ~IsErr(san)
                  /\ \E u \in UuidStreams :
                       /\ mid' = convert_cards_array_to_object(san, u)
                       /\ san' = sanitize_advanced_flow_data(mid', u, ConvertDraws(san) + 1)
                       /\ warnings' = advanced_flow_name_warning(mid', u, ConvertDraws(san) + 1)
                       /\ callerArg' = caller_flow_after_convert(san, mid', u)
                  /\ arg' = san
                  /\ op' = "normalize_again"
                  /\ UNCHANGED <<ret, posted, mode, cachedCards, sessionUsed, callers, listingRequests>>

\* what create_flow returns or raises once the hub has answered
flow_reply(reply, sanitized_data, u) == CASE reply = "200" -> Put(sanitized_data, "id", Str(UuidStr(u, 2)))
                                          [] reply = "400" -> Err("ValueError: Invalid flow data")
                                          [] reply = "422" -> Err("ValueError: Flow validation failed")
                                          [] reply = "500" -> Err("HTTPStatusError: 500")
                                          [] OTHER -> Err("ConnectError: hub unreachable")

\* the flow create_flow returns in demo mode
demo_flow(sanitized_data, u) == Map(<<Entry("id", Str(UuidStr(u, 2))), Entry("name", Get(sanitized_data, "name")), Entry("enabled", Get(sanitized_data, "enabled")), Entry("broken", Bool(FALSE)), Entry("folder", Get(sanitized_data, "folder")), Entry("trigger", Get(sanitized_data, "trigger")), Entry("conditions", Get(sanitized_data, "conditions")), Entry("actions", Get(sanitized_data, "actions"))>>)

\* a call of create_flow(flow_data); the catalog is loaded by the first
\* _validate_flow_card call unless it is cached already
CreateFlow == /\ op = "idle"
              /\ \E flow_data \in BasicFlows, u \in UuidStreams, fetch \in FetchOutcomes :
                   /\ arg' = flow_data
                   /\ cachedCards' = IF ReachesValidation(flow_data) THEN get_available_cards(cachedCards, mode, fetch) ELSE cachedCards
                   /\ san' = sanitize_flow_data(flow_data, cachedCards', u)
                   /\ warnings' = sanitize_flow_warnings(flow_data, cachedCards, mode, fetch, cachedCards', u)
                   /\ IF IsErr(san')
                      THEN ret' = san' /\ posted' = <<>>
                      ELSE IF mode = "demo"
                      THEN ret' = demo_flow(san', u) /\ posted' = <<>>
                      ELSE /\ posted' = <<Request("POST", "/api/manager/flow/flow", Map(<<Entry("flow", san')>>))>>
                           /\ \E reply \in HubReplies : ret' = flow_reply(reply, san', u)
                   /\ sessionUsed' = ((ReachesValidation(flow_data) /\ requests_listings(cachedCards, mode)) \/ posted' # <<>>)
              /\ callerArg' = arg'
              /\ op' = "create_flow"
              /\ UNCHANGED <<mid, mode, callers, listingRequests>>

\* a FlowAPI whose catalog is not loaded yet, or was loaded by an earlier call
InitBasic == /\ op = "idle"
             /\ arg = Null
             /\ mid = Null
             /\ san = Null
             /\ ret = Null
             /\ posted = <<>>
             /\ mode \in {"live", "demo"}
             /\ cachedCards \in {Null, EmptyCatalog} \cup (IF mode = "demo" THEN {catalog_of(DemoListings)} ELSE {catalog_of(HubListings)})
             /\ warnings = <<>>
             /\ callerArg = Null
             /\ sessionUsed = FALSE
             /\ callers = [c \in Callers |-> "idle"]
             /\ listingRequests = [l \in Listings |-> 0]

NextBasic == CreateFlow \/ CreateAdvancedFlow

SpecBasic == InitBasic /\ [][NextBasic]_vars

\* the loop over flows_data.items(): a null record is skipped, a record
\* whose cleaned value is falsy is left out
RECURSIVE cleaned_flows(_)
cleaned_flows(kids) == IF kids = <<>> THEN <<>>
                       ELSE LET cleaned_flow == ultra_clean_for_api(Head(kids).v)
                                rest == cleaned_flows(Tail(kids))
                            IN IF Head(kids).v.t = "null" \/ ~Truthy(cleaned_flow) THEN rest ELSE <<Entry(Head(kids).k, cleaned_flow)>> \o rest

\* what get_flows / get_advanced_flows return for the body flows_data
clean_listing(flows_data) == IF IsDict(flows_data) THEN Map(cleaned_flows(flows_data.kids)) ELSE flows_data

\* get_flows / get_advanced_flows in live mode
GetFlows(kind) == /\ op = "idle"
                  /\ mode = "live"
                  /\ \E reply \in {"200", "500", "down"}, flows_data \in ListingBodies :
                       /\ mid' = IF reply = "200" THEN flows_data ELSE Err("HTTP: " \o reply)
                       /\ ret' = CASE reply = "200" -> clean_listing(flows_data)
                                   [] reply = "500" -> Err("HTTPStatusError: 500")
                                   [] OTHER -> Err("ConnectError: hub unreachable")
                  /\ arg' = Null
                  /\ callerArg' = Null
                  /\ sessionUsed' = TRUE
                  /\ op' = "get_" \o kind \o "s"
                  /\ UNCHANGED <<san, posted, mode, cachedCards, warnings, callers, listingRequests>>

\* get_flow / get_advanced_flow in live mode
GetFlow(kind) == /\ op = "idle"
                 /\ mode = "live"
                 /\ \E flow_id \in FlowIds, reply \in {"200", "404", "500", "down"}, flow_data \in HubRecords :
                      /\ arg' = flow_id
                      /\ IF ~IsStr(flow_id) \/ Strip(flow_id.s) = ""
                         THEN mid' = Null /\ ret' = Err("ValueError: Flow ID must be a non-empty string")
                         ELSE /\ mid' = IF reply = "200" THEN flow_data ELSE Err("HTTP: " \o reply)
                              /\ ret' = CASE reply = "200" -> ultra_clean_for_api(flow_data)
                                          [] reply = "404" -> Err("ValueError: Flow " \o Strip(flow_id.s) \o " not found")
                                          [] reply = "500" -> Err("HTTPStatusError: 500")
                                          [] OTHER -> Err("ConnectError: hub unreachable")
                 /\ callerArg' = arg'
                 /\ sessionUsed' = (IsStr(arg') /\ Strip(arg'.s) # "")
                 /\ op' = "get_" \o kind
                 /\ UNCHANGED <<san, posted, mode, cachedCards, warnings, callers, listingRequests>>

NextFetch == \E kind \in FlowKinds : GetFlows(kind) \/ GetFlow(kind)

SpecFetch == Init /\ [][NextFetch]_vars

\* a call of _validate_advanced_flow_card(card)
ValidateCard == /\ op = "idle"
                /\ \E card \in ValidatorCards :
                     /\ arg' = card
                     /\ ret' = validate_advanced_flow_card(card)
                /\ callerArg' = arg'
                /\ op' = "validate_advanced_flow_card"
                /\ UNCHANGED <<mid, san, posted, mode, cachedCards, warnings, sessionUsed, callers, listingRequests>>

SpecCard == Init /\ [][ValidateCard]_vars

\* what create_flow_folder returns or raises once the hub has answered
flow_folder_reply(reply, sanitized_data, u) == CASE reply = "200" -> Put(sanitized_data, "id", Str(UuidStr(u, 1)))
                                                 [] reply = "400" -> Err("ValueError: Invalid folder data")
                                                 [] reply = "409" -> Err("ValueError: Folder with name '" \o Get(sanitized_data, "name").s \o "' already exists")
                                                 [] reply = "500" -> Err("HTTPStatusError: 500")
                                                 [] OTHER -> Err("ConnectError: hub unreachable")

\* the folder create_flow_folder returns in demo mode
demo_flow_folder(sanitized_data, u) == Map(<<Entry("id", Str(UuidStr(u, 1))), Entry("name", Get(sanitized_data, "name")), Entry("parent", Get(sanitized_data, "parent"))>>)

\* a call of create_flow_folder(name, parent)
CreateFlowFolder == /\ op = "idle"
                    /\ \E name \in FolderNames, parent \in FolderParents, u \in UuidStreams :
                         /\ arg' = Map(<<Entry("name", name), Entry("parent", parent)>>)
                         /\ san' = sanitize_folder_data(name, parent)
                         /\ IF IsErr(san')
                            THEN ret' = san' /\ posted' = <<>>
                            ELSE IF mode = "demo"
                            THEN ret' = demo_flow_folder(san', u) /\ posted' = <<>>
                            ELSE /\ posted' = <<Request("POST", "/api/manager/flow/flowfolder", Map(<<Entry("flowfolder", san')>>))>>
                                 /\ \E reply \in {"200", "400", "409", "500", "down"} : ret' = flow_folder_reply(reply, san', u)
                    /\ callerArg' = arg'
                    /\ sessionUsed' = (posted' # <<>>)
                    /\ op' = "create_flow_folder"
                    /\ UNCHANGED <<mid, mode, cachedCards, warnings, callers, listingRequests>>

SpecFolder == Init /\ [][CreateFlowFolder]_vars

\* the listing a caller requests after the one it is suspended at
next_listing(l) == CASE l = "triggers" -> "conditions" [] l = "conditions" -> "actions" [] OTHER -> "done"

\* caller c enters _get_available_cards: with a catalog cached it returns it;
\* otherwise it asks for the trigger listing, which in demo / offline mode
\* and for the two listings after it is answered at once from built-in data,
\* and in live mode suspends the caller at session.get
CallGetAvailableCards(c) == /\ op \in {"idle", "get_available_cards"}
                            /\ callers[c] = "idle"
                            /\ IF ~requests_listings(cachedCards, mode)
                               THEN /\ cachedCards' = get_available_cards(cachedCards, mode, "ok")
                                    /\ callers' = [callers EXCEPT ![c] = "done"]
                                    /\ ret' = cachedCards'
                                    /\ UNCHANGED <<listingRequests, sessionUsed>>
                               ELSE /\ listingRequests' = [listingRequests EXCEPT !["triggers"] = @ + 1]
                                    /\ callers' = [callers EXCEPT ![c] = "triggers"]
                                    /\ sessionUsed' = TRUE
                                    /\ UNCHANGED <<cachedCards, ret>>
                            /\ op' = "get_available_cards"
                            /\ UNCHANGED <<arg, mid, san, posted, mode, warnings, callerArg>>

\* the hub answers the listing caller c is suspended at: an error makes the
\* caller cache the empty catalog; after the trigger and the condition
\* listing the caller asks for the next one; after the action listing it
\* caches the catalog built from the three
ListingReply(c) == /\ op = "get_available_cards"
                   /\ callers[c] \in Listings
                   /\ \E fetch \in FetchOutcomes :
                        IF fetch = "fail"
                        THEN /\ cachedCards' = EmptyCatalog
                             /\ warnings' = Append(warnings, "Could not load available flow cards")
                             /\ callers' = [callers EXCEPT ![c] = "done"]
                             /\ ret' = cachedCards'
                             /\ UNCHANGED listingRequests
                        ELSE IF next_listing(callers[c]) # "done"
                        THEN /\ listingRequests' = [listingRequests EXCEPT ![next_listing(callers[c])] = @ + 1]
                             /\ callers' = [callers EXCEPT ![c] = next_listing(callers[c])]
                             /\ UNCHANGED <<cachedCards, warnings, ret>>
                        ELSE /\ cachedCards' = catalog_of(HubListings)
                             /\ callers' = [callers EXCEPT ![c] = "done"]
                             /\ ret' = cachedCards'
                             /\ UNCHANGED <<listingRequests, warnings>>
                   /\ UNCHANGED <<op, arg, mid, san, posted, mode, callerArg, sessionUsed>>

NextCatalog == \E c \in Callers : CallGetAvailableCards(c) \/ ListingReply(c)

SpecCatalog == Init /\ [][NextCatalog]_vars

SpecFlow == Init /\ [][CreateFlow]_vars

NextGraph == CreateAdvancedFlow \/ NormalizeAgain

SpecGraph == Init /\ [][NextGraph]_vars

NextClean == UltraClean \/ UltraCleanAgain

SpecClean == Init /\ [][NextClean]_vars

(***************************************************************************)
(* The tool handlers of FlowManagementTools.  The text of a result starts  *)
(* with one of two marks, written here by their code points.               *)
(***************************************************************************)
CheckMark == "<U+2705>"

CrossMark == "<U+274C>"

\* the position of the first ":" of s at or after i, 0 when there is none
RECURSIVE ColonAt(_, _)
ColonAt(s, i) == IF i > Len(s) THEN 0 ELSE IF SubSeq(s, i, i) = ":" THEN i ELSE ColonAt(s, i + 1)

\* the class of an exception, and str(e)
ExcType(e) == SubSeq(e.s, 1, ColonAt(e.s, 1) - 1)

ExcStr(e) == SubSeq(e.s, ColonAt(e.s, 1) + 2, Len(e.s))

\* arguments[k] for the keys in turn: the first missing key raises KeyError
RECURSIVE missing_argument(_, _)
missing_argument(arguments, keys) == IF keys = <<>> THEN Null
                                     ELSE IF ~Has(arguments, Head(keys)) THEN Err("KeyError: '" \o Head(keys) \o "'")
                                     ELSE missing_argument(arguments, Tail(keys))

\* mutant: only the "except ValueError" clause, any other exception escapes
handler_except_value_error_only(e, what) == IF ExcType(e) = "ValueError" THEN Str(CrossMark \o " " \o ExcStr(e)) ELSE e

\* the two except clauses of a handler
handler_except(e, what) == IF ExcType(e) = "ValueError" THEN Str(CrossMark \o " " \o ExcStr(e))
                           ELSE Str(CrossMark \o " Error creating " \o what \o ": " \o ExcStr(e))

\* the flow_data handle_create_flow builds
create_flow_arguments(arguments) == IF IsErr(missing_argument(arguments, <<"name", "trigger", "actions">>)) THEN missing_argument(arguments, <<"name", "trigger", "actions">>)
                                    ELSE Map(<<Entry("name", Get(arguments, "name")), Entry("trigger", Get(arguments, "trigger")), Entry("actions", Get(arguments, "actions")),
                                               Entry("conditions", GetOr(arguments, "conditions", ListOf(<<>>))), Entry("folder", Get(arguments, "folder")), Entry("enabled", GetOr(arguments, "enabled", Bool(TRUE)))>>)

\* the flow_data handle_create_advanced_flow builds
create_advanced_flow_arguments(arguments) == IF IsErr(missing_argument(arguments, <<"name", "cards">>)) THEN missing_argument(arguments, <<"name", "cards">>)
                                             ELSE Map(<<Entry("name", Get(arguments, "name")), Entry("cards", Get(arguments, "cards")), Entry("enabled", GetOr(arguments, "enabled", Bool(TRUE))),
                                                        Entry("folder", Get(arguments, "folder")), Entry("triggerable", GetOr(arguments, "triggerable", Bool(FALSE))), Entry("broken", GetOr(arguments, "broken", Bool(FALSE)))>>)

\* the text of a handler's result for what the client call returned or raised
handle_create_flow_text(new_flow) == IF IsErr(new_flow) THEN handler_except(new_flow, "flow")
                                     ELSE Str(CheckMark \o " Flow '" \o PyStr(Get(new_flow, "name")) \o "' created successfully (ID: " \o PyStr(Get(new_flow, "id")) \o ")")

handle_create_advanced_flow_text(new_flow, flow_data) == LET card_count == IF IsDict(Get(flow_data, "cards")) THEN Len(Get(flow_data, "cards").kids) ELSE 0
                                                         IN IF IsErr(new_flow) THEN handler_except(new_flow, "advanced flow")
                                                            ELSE Str(CheckMark \o " Advanced flow '" \o PyStr(Get(new_flow, "name")) \o "' created successfully (ID: " \o PyStr(Get(new_flow, "id")) \o ") with " \o ToString(card_count) \o " cards")

handle_create_flow_folder_text(new_folder) == IF IsErr(new_folder) THEN handler_except(new_folder, "flow folder")
                                              ELSE Str(CheckMark \o " Flow folder '" \o PyStr(Get(new_folder, "name")) \o "' created successfully (ID: " \o PyStr(Get(new_folder, "id")) \o ")")

\* argument maps a tool call may carry
FlowArguments == {Map(Field("name", n) \o Field("trigger", t) \o Field("actions", a) \o Field("conditions", c)) :
                    n \in {Absent, Null, Str(""), Num(123), Str("Test")},
                    t \in {Absent, Str("invalid"), Map(<<Entry("id", Str("test"))>>), Map(<<Entry("id", ListOf(<<Str("a")>>))>>), GoodTrigger},
                    a \in {Absent, Str("invalid"), ListOf(<<>>), GoodActions},
                    c \in {Absent, ListOf(<<Map(<<>>)>>)}}

AdvancedFlowArguments == {Map(Field("name", n) \o Field("cards", c) \o Field("folder", f)) :
                            n \in {Absent, Null, Str(""), ListOf(<<>>), Str("Test")},
                            c \in {Absent, Str("invalid"), ListOf(<<>>), ListOf(<<Map(<<Entry("invalid", Str("card"))>>)>>), ListOf(<<Map(<<Entry("type", Null), Entry("id", Null)>>)>>), ListOf(<<Null>>),
                                   GoodCards, Map(<<Entry("a", CardAction)>>)},
                            f \in {Absent, Num(7)}}

FlowFolderArguments == {Map(Field("name", n) \o Field("parent", p)) : n \in {Absent} \cup FolderNames, p \in {Absent} \cup FolderParents}

\* a call of handle_create_flow(arguments)
HandleCreateFlow == /\ op = "idle"
                    /\ \E arguments \in FlowArguments, u \in UuidStreams, fetch \in FetchOutcomes :
                         LET flow_data == create_flow_arguments(arguments)
                         IN /\ arg' = arguments
                            /\ cachedCards' = IF ~IsErr(flow_data) /\ ReachesValidation(flow_data) THEN get_available_cards(cachedCards, mode, fetch) ELSE cachedCards
                            /\ san' = IF IsErr(flow_data) THEN flow_data ELSE sanitize_flow_data(flow_data, cachedCards', u)
                            /\ warnings' = IF IsErr(flow_data) THEN <<>> ELSE sanitize_flow_warnings(flow_data, cachedCards, mode, fetch, cachedCards', u)
                            /\ IF IsErr(san')
                               THEN ret' = handle_create_flow_text(san') /\ posted' = <<>>
                               ELSE IF mode = "demo"
                               THEN ret' = handle_create_flow_text(demo_flow(san', u)) /\ posted' = <<>>
                               ELSE /\ posted' = <<Request("POST", "/api/manager/flow/flow", Map(<<Entry("flow", san')>>))>>
                                    /\ \E reply \in HubReplies : ret' = handle_create_flow_text(flow_reply(reply, san', u))
                            /\ sessionUsed' = ((~IsErr(flow_data) /\ ReachesValidation(flow_data) /\ requests_listings(cachedCards, mode)) \/ posted' # <<>>)
                    /\ callerArg' = arg'
                    /\ op' = "handle_create_flow"
                    /\ UNCHANGED <<mid, mode, callers, listingRequests>>

\* a call of handle_create_advanced_flow(arguments)
HandleCreateAdvancedFlow == /\ op = "idle"
                            /\ \E arguments \in AdvancedFlowArguments, u \in UuidStreams :
                                 LET flow_data == create_advanced_flow_arguments(arguments)
                                 IN /\ arg' = arguments
                                    /\ mid' = IF IsErr(flow_data) THEN flow_data ELSE convert_cards_array_to_object(flow_data, u)
                                    /\ san' = IF IsErr(mid') THEN mid' ELSE sanitize_advanced_flow_data(mid', u, ConvertDraws(flow_data) + 1)
                                    /\ IF IsErr(san')
                                       THEN ret' = handle_create_advanced_flow_text(san', flow_data) /\ posted' = <<>>
                                       ELSE IF mode = "demo"
                                       THEN ret' = handle_create_advanced_flow_text(demo_advanced_flow(san', u, ConvertDraws(flow_data) + 2), flow_data) /\ posted' = <<>>
                                       ELSE /\ posted' = <<Request("POST", "/api/manager/flow/advancedflow", Map(<<Entry("advancedflow", ultra_clean_for_api(san'))>>))>>
                                            /\ \E reply \in HubReplies : ret' = handle_create_advanced_flow_text(advanced_flow_reply(reply, Get(posted'[1].json, "advancedflow"), u, ConvertDraws(flow_data) + 2), flow_data)
                                    /\ warnings' = IF IsErr(mid') THEN <<>> ELSE advanced_flow_name_warning(mid', u, ConvertDraws(flow_data) + 1)
                            /\ callerArg' = arg'
                            /\ sessionUsed' = (posted' # <<>>)
                            /\ op' = "handle_create_advanced_flow"
                            /\ UNCHANGED <<mode, cachedCards, callers, listingRequests>>

\* a call of handle_create_flow_folder(arguments)
HandleCreateFlowFolder == /\ op = "idle"
                          /\ \E arguments \in FlowFolderArguments, u \in UuidStreams :
                               /\ arg' = arguments
                               /\ san' = IF ~Has(arguments, "name") THEN Err("KeyError: 'name'") ELSE sanitize_folder_data(Get(arguments, "name"), Get(arguments, "parent"))
                               /\ IF IsErr(san')
                                  THEN ret' = handle_create_flow_folder_text(san') /\ posted' = <<>>
                                  ELSE IF mode = "demo"
                                  THEN ret' = handle_create_flow_folder_text(demo_flow_folder(san', u)) /\ posted' = <<>>
                                  ELSE /\ posted' = <<Request("POST", "/api/manager/flow/flowfolder", Map(<<Entry("flowfolder", san')>>))>>
                                       /\ \E reply \in {"200", "400", "409", "500", "down"} : ret' = handle_create_flow_folder_text(flow_folder_reply(reply, san', u))
                          /\ callerArg' = arg'
                          /\ sessionUsed' = (posted' # <<>>)
                          /\ op' = "handle_create_flow_folder"
                          /\ UNCHANGED <<mid, mode, cachedCards, warnings, callers, listingRequests>>

NextTools == HandleCreateFlow \/ HandleCreateAdvancedFlow \/ HandleCreateFlowFolder

SpecTools == Init /\ [][NextTools]_vars

\* the calls that create a flow, an advanced flow or a folder
NextCreate == CreateFlow \/ CreateAdvancedFlow \/ CreateFlowFolder

SpecCreate == Init /\ [][NextCreate]_vars

\* the calls of the converter, the validators, the sanitizers and the cleaner
NextSanitizers == CreateAdvancedFlow \/ CreateFlow \/ UltraClean \/ ValidateCard

SpecSanitizers == Init /\ [][NextSanitizers]_vars

Next == NextClean \/ NextGraph \/ CreateFlow \/ NextFetch \/ ValidateCard \/ CreateFlowFolder \/ NextCatalog \/ NextTools

Spec == Init /\ [][Next]_vars

(***************************************************************************)
(* Claims.                                                                 *)
(***************************************************************************)
\* v is null or an empty dict / list, or holds one somewhere in its tree
RECURSIVE HasNullOrEmpty(_)
HasNullOrEmpty(v) == \/ v.t = "null"
                     \/ (v.t \in {"map", "list"} /\ v.kids = <<>>)
                     \/ \E i \in 1..Len(v.kids) : HasNullOrEmpty(v.kids[i].v)

\* C1 as stated: the value _ultra_clean_for_api returns holds no null and no
\* empty dict or list anywhere in its tree, the root included.
C1_NoNullNoEmptyAnywhere == op = "ultra_clean" => ~HasNullOrEmpty(ret)

\* C1 amended: below the root of the value _ultra_clean_for_api returns there
\* is no null and no empty dict or list, except that the top-level cards entry
\* of a dict result may be the empty dict; the root itself is never an empty
\* dict (it may be null or an empty list for a scalar or list input).
C1_CleanBelowRootButCards == op = "ultra_clean" =>
                               /\ ret # Map(<<>>)
                               /\ \A i \in 1..Len(ret.kids) :
                                    \/ IsDict(ret) /\ ret.kids[i].k = "cards" /\ ret.kids[i].v = Map(<<>>)
                                    \/ ~HasNullOrEmpty(ret.kids[i].v)

\* a dirty flow was cleaned and kept a card
C1_Witness == /\ op = "ultra_clean"
              /\ IsDict(arg) /\ HasNullOrEmpty(Get(arg, "cards"))
              /\ IsDict(ret) /\ Get(ret, "cards").kids # <<>>

\* the number a Python int, float or bool stands for (True == 1, False == 0)
NumVal(v) == IF v.t = "bool" THEN (IF v.b THEN 1 ELSE 0) ELSE v.n

\* Python's a == b on values: dicts compare by key and value whatever the
\* order of their keys, lists compare element by element
RECURSIVE PyEq(_, _)
PyEq(a, b) == CASE IsNumber(a) /\ IsNumber(b) -> NumVal(a) = NumVal(b)
                [] a.t # b.t -> FALSE
                [] a.t = "map" -> /\ Len(a.kids) = Len(b.kids)
                                  /\ \A i \in 1..Len(a.kids) : Has(b, a.kids[i].k) /\ PyEq(a.kids[i].v, Get(b, a.kids[i].k))
                [] a.t = "list" -> /\ Len(a.kids) = Len(b.kids)
                                   /\ \A i \in 1..Len(a.kids) : PyEq(a.kids[i].v, b.kids[i].v)
                [] OTHER -> a = b

\* C2: _ultra_clean_for_api is idempotent: cleaning the value it returned
\* returns that value again (fallback name, forced cards and re-shaped cards
\* included).
C2_Idempotent == op = "ultra_clean_again" => PyEq(ret, arg)

\* a flow that got the fallback name and kept a re-shaped card was cleaned again
C2_Witness == /\ op = "ultra_clean_again"
              /\ IsDict(ret) /\ Get(ret, "name") = Str("Unnamed Flow")
              /\ Get(ret, "cards").kids # <<>>

\* a flow record whose name is neither null nor empty
NamedRecord(r) == IsDict(r) /\ Has(r, "name") /\ Get(r, "name").t # "null" /\ Get(r, "name") # Str("") /\ ~(Get(r, "name").t \in {"map", "list"} /\ Get(r, "name").kids = <<>>)

\* a read operation got an answer with status 200 from the hub
ListingAnswered == op \in {"get_flows", "get_advancedflows"} /\ ~IsErr(mid)

SingleAnswered == op \in {"get_flow", "get_advancedflow"} /\ IsStr(arg) /\ Strip(arg.s) # "" /\ ~IsErr(mid)

\* C3 as stated: in live mode, whatever the hub answered, get_flows,
\* get_flow, get_advanced_flows and get_advanced_flow do not raise and every
\* flow record they return has a name that is neither null nor empty.
C3_ReturnedFlowsNamed == /\ ListingAnswered => (~IsErr(ret) /\ \A i \in 1..Len(ret.kids) : NamedRecord(ret.kids[i].v))
                         /\ SingleAnswered => (~IsErr(ret) /\ NamedRecord(ret))

RECURSIVE HasNull(_)
HasNull(v) == v.t = "null" \/ \E i \in 1..Len(v.kids) : HasNull(v.kids[i].v)

\* C4 as stated: the flow create_flow posts and the flow create_advanced_flow
\* posts hold no null at any depth.
C4_PostedFlowHasNoNull == \A i \in 1..Len(posted) : ~HasNull(posted[i].json)

OutputFields == {"outputSuccess", "outputTrue", "outputFalse", "outputError"}

\* create_advanced_flow was called with a flow whose cards are a list
ListShaped == op = "create_advanced_flow" /\ IsDict(arg) /\ IsList(Get(arg, "cards"))

\* create_advanced_flow was called with a flow whose cards are an object
MapShaped == op = "create_advanced_flow" /\ IsDict(arg) /\ IsDict(Get(arg, "cards"))

\* the cards of the call's argument, of the converted flow, of the sanitized flow
ArgCards == Get(arg, "cards").kids

MidCards == Get(mid, "cards").kids

SanCards == Get(san, "cards").kids

\* the field auto-wiring is to use for a card: outputTrue for a condition
WiringField(card) == IF Get(card, "type") = Str("condition") THEN "outputTrue" ELSE "outputSuccess"

\* the number of ids the output fields of a card list
EdgesOf(card) == LET len(f) == IF IsList(Get(card, f)) THEN Len(Get(card, f).kids) ELSE 0
                 IN len("outputSuccess") + len("outputTrue") + len("outputFalse") + len("outputError")

RECURSIVE TotalEdges(_)
TotalEdges(kids) == IF kids = <<>> THEN 0 ELSE EdgesOf(Head(kids).v) + TotalEdges(Tail(kids))

\* a list of N >= 1 cards of known types, none declaring an output edge
PlainKnownList == /\ ListShaped
                  /\ Len(ArgCards) >= 1
                  /\ \A i \in 1..Len(ArgCards) : LET card == ArgCards[i].v
                                                 IN /\ IsDict(card)
                                                    /\ IsStr(Get(card, "type")) /\ Get(card, "type").s \in CardTypes
                                                    /\ \A f \in OutputFields : ~Has(card, f)

\* every edge of the converted cards sits in the field its source card is to use
EdgesInWiringField == \A i \in 1..Len(MidCards) : \A f \in OutputFields : Has(MidCards[i].v, f) => f = WiringField(MidCards[i].v)

\* C5 as stated: a list of N cards of known types without output edges
\* converts to N distinct keys and exactly N-1 forward edges, outputTrue from
\* a condition and outputSuccess from any other card.
C5_NMinusOneEdges == PlainKnownList => /\ ~IsErr(mid)
                                       /\ Len(MidCards) = Len(ArgCards) /\ DistinctKeys(MidCards)
                                       /\ TotalEdges(MidCards) = Len(ArgCards) - 1
                                       /\ EdgesInWiringField

\* C5 amended: such a list converts to N distinct keys and exactly one forward
\* edge for every card that is not the last one and is not a note (N-1 edges
\* when no note stands before the last card), outputTrue from a condition and
\* outputSuccess from any other card.
C5_OneEdgePerNonNote == PlainKnownList => /\ ~IsErr(mid)
                                          /\ Len(MidCards) = Len(ArgCards) /\ DistinctKeys(MidCards)
                                          /\ TotalEdges(MidCards) = Cardinality({i \in 1..(Len(ArgCards) - 1) : Get(ArgCards[i].v, "type") # Str("note")})
                                          /\ EdgesInWiringField

\* the random part of a generated card id: its last six characters
RandomPart(card_id) == SubSeq(card_id, Len(card_id) - 5, Len(card_id))

\* three plain cards, none a note, were converted and the random parts of
\* the first two ids collided
C5_Witness == /\ PlainKnownList /\ Len(ArgCards) = 3
              /\ \A i \in 1..3 : Get(ArgCards[i].v, "type") # Str("note")
              /\ TotalEdges(MidCards) = 2
              /\ RandomPart(MidCards[1].k) = RandomPart(MidCards[2].k)

\* C6: an output field the converter added to the card at position i (absent
\* from the original card, present in the converted one) is the one-element
\* list holding the generated id of the card at position i+1, in outputTrue
\* for a condition and outputSuccess for any other type; the last card gets
\* none.  For [trigger, condition, action]: trigger.outputSuccess =
\* [conditionId], condition.outputTrue = [actionId], action has no edges.
C6_AutoWiredEdge == (ListShaped /\ ~IsErr(mid)) =>
                      /\ Len(MidCards) = Len(ArgCards)
                      /\ \A i \in 1..Len(ArgCards) : \A f \in OutputFields :
                           (~Has(ArgCards[i].v, f) /\ Has(MidCards[i].v, f)) =>
                              /\ i < Len(ArgCards)
                              /\ f = WiringField(ArgCards[i].v)
                              /\ Get(MidCards[i].v, f) = ListOf(<<Str(MidCards[i + 1].k)>>)
                      /\ Get(arg, "cards") = GoodCards =>
                           /\ Get(MidCards[1].v, "outputSuccess") = ListOf(<<Str(MidCards[2].k)>>)
                           /\ Get(MidCards[2].v, "outputTrue") = ListOf(<<Str(MidCards[3].k)>>)
                           /\ EdgesOf(MidCards[3].v) = 0 /\ TotalEdges(MidCards) = 2

\* [trigger, condition, action] was converted and the condition got an edge
C6_Witness == /\ ListShaped /\ ~IsErr(mid)
              /\ Get(arg, "cards") = GoodCards
              /\ Has(MidCards[2].v, "outputTrue")

\* C7: when the original card at position i declares the field auto-wiring
\* would use, the converted card carries exactly the author's value there.
C7_AuthorWiringKept == (ListShaped /\ ~IsErr(mid)) =>
                         \A i \in 1..Len(ArgCards) :
                            Has(ArgCards[i].v, WiringField(ArgCards[i].v)) =>
                               /\ Has(MidCards[i].v, WiringField(ArgCards[i].v))
                               /\ Get(MidCards[i].v, WiringField(ArgCards[i].v)) = Get(ArgCards[i].v, WiringField(ArgCards[i].v))

\* a card that declares its wiring field stands before another card
C7_Witness == /\ ListShaped /\ ~IsErr(mid)
              /\ \E i \in 1..(Len(ArgCards) - 1) :
                   /\ Has(ArgCards[i].v, WiringField(ArgCards[i].v))
                   /\ Get(ArgCards[i].v, "type") \notin {Str("note"), Str("end")}

\* C8 as stated: in every flow the normalize-and-validate pipeline returns,
\* each id listed in a card's outputSuccess, outputTrue, outputFalse or
\* outputError is a key of the same cards object.
C8_EdgesReferToCards == (op = "create_advanced_flow" /\ ~IsErr(san)) =>
                          \A i \in 1..Len(SanCards) : \A f \in OutputFields :
                             IsList(Get(SanCards[i].v, f)) =>
                                \A j \in 1..Len(Get(SanCards[i].v, f).kids) : Has(Get(san, "cards"), Get(SanCards[i].v, f).kids[j].v.s)

\* C9: the converter returns a flow whose cards are already an object
\* unchanged, and the pipeline applied to the flow it returned returns an
\* equal flow.
C9_IdempotentOnMaps == /\ MapShaped => mid = arg
                       /\ op = "normalize_again" => (mid = arg /\ ~IsErr(san) /\ PyEq(san, arg))

\* the pipeline ran again on a flow that came from a two-card cards object
C9_Witness == /\ op = "normalize_again"
              /\ Has(Get(arg, "cards"), "a") /\ Has(Get(arg, "cards"), "b")
              /\ ~IsErr(san)

\* C10 as stated: the converter returns a converted flow for every flow
\* whose cards are a list, whatever the entries are.
C10_ConverterNeverRaises == ListShaped => ~IsErr(mid)

\* isinstance(v, (int, float)): a Python number, bool included
Numeric(v) == v.t \in {"num", "bool"}

\* the card's type is one of the eight known types
TypeKnown(card) == Has(card, "type") /\ IsStr(Get(card, "type")) /\ Get(card, "type").s \in {"trigger", "condition", "action", "delay", "any", "all", "note", "start"}

TypeBuiltin(card) == TypeKnown(card) /\ Get(card, "type").s \in {"delay", "any", "all", "note", "start"}

CoordinatesNumeric(card) == Has(card, "x") /\ Numeric(Get(card, "x")) /\ Has(card, "y") /\ Numeric(Get(card, "y"))

\* a required field of the card is violated
RequiredViolated(card) == \/ ~TypeKnown(card)
                          \/ ~CoordinatesNumeric(card)
                          \/ ~TypeBuiltin(card) /\ (~Has(card, "ownerUri") \/ ~Has(card, "id"))

\* the missing field the error is to name: the first of type, x, y that is
\* absent, else ownerUri or id when a sound card that is not builtin lacks it
MissingField(card) == CASE ~Has(card, "type") -> "type"
                        [] ~Has(card, "x") -> "x"
                        [] ~Has(card, "y") -> "y"
                        [] TypeKnown(card) /\ CoordinatesNumeric(card) /\ ~TypeBuiltin(card) /\ ~Has(card, "ownerUri") -> "ownerUri"
                        [] TypeKnown(card) /\ CoordinatesNumeric(card) /\ ~TypeBuiltin(card) /\ ~Has(card, "id") -> "id"
                        [] OTHER -> ""

EndsWith(s, t) == Len(s) >= Len(t) /\ SubSeq(s, Len(s) - Len(t) + 1, Len(s)) = t

Validated == op = "validate_advanced_flow_card"

Whitelist == {"type", "x", "y", "ownerUri", "id", "args", "outputSuccess", "outputTrue", "outputFalse", "outputError", "droptoken", "inverted", "input", "value", "color", "width", "height"}

\* v has not the type the optional field f is declared with
WrongType(f, v) == CASE f \in {"outputSuccess", "outputTrue", "outputFalse", "outputError", "input"} -> ~IsList(v)
                     [] f = "args" -> ~IsDict(v)
                     [] f \in {"droptoken", "value", "color"} -> ~IsStr(v)
                     [] f = "inverted" -> v.t # "bool"
                     [] f \in {"width", "height"} -> ~Numeric(v)
                     [] OTHER -> FALSE

\* the entry is outside the whitelist or an optional field of the wrong type
Droppable(e) == e.k \notin Whitelist \/ WrongType(e.k, e.v)

\* the card without its droppable entries
WithoutDroppable(card) == Map(SelectSeq(card.kids, LAMBDA e : ~Droppable(e)))

C13_NoNullCardField == (op = "create_advanced_flow" /\ ~IsErr(san)) =>
                         \A i \in 1..Len(SanCards) : \A j \in 1..Len(SanCards[i].v.kids) :
                            LET value == SanCards[i].v.kids[j].v
                            IN /\ value.t # "null"
                               /\ IsList(value) => \A k \in 1..Len(value.kids) : value.kids[k].v.t # "null"

\* the cards of the argument are missing, neither a list nor an object, or empty
NoUsableCards == IsDict(arg) /\ (~Has(arg, "cards") \/ Get(arg, "cards").t \notin {"list", "map"} \/ Get(arg, "cards").kids = <<>>)

\* C14: create_advanced_flow's convert-and-sanitize pipeline either raises
\* or returns a flow whose name is a non-empty string, whose enabled is a
\* boolean and whose cards object holds at least one card, each the result
\* of _validate_advanced_flow_card on the converted card; it always raises
\* when cards is missing, neither a list nor an object, or empty.
C14_FailsOrSoundGraph == op = "create_advanced_flow" =>
                           /\ ~IsErr(san) =>
                                /\ IsDict(san)
                                /\ IsStr(Get(san, "name")) /\ Strip(Get(san, "name").s) # ""
                                /\ Get(san, "enabled").t = "bool"
                                /\ IsDict(Get(san, "cards")) /\ Len(SanCards) >= 1
                                /\ \A i \in 1..Len(SanCards) :
                                     /\ Has(Get(mid, "cards"), SanCards[i].k)
                                     /\ ~IsErr(SanCards[i].v)
                                     /\ SanCards[i].v = validate_advanced_flow_card(Get(Get(mid, "cards"), SanCards[i].k))
                           /\ IsErr(san) => (IsErr(ret) /\ posted = <<>>)
                           /\ NoUsableCards => IsErr(san)

\* a flow with a blank name and sound cards was accepted
C14_Witness == /\ op = "create_advanced_flow" /\ ~IsErr(san)
               /\ Get(arg, "name") = Str(" ")
               /\ Len(SanCards) = 3

\* the converted card passes _validate_advanced_flow_card
PassesValidator(card) == IsDict(card) /\ ~IsErr(validate_advanced_flow_card(card))

\* C15 as stated: when the cards came as a list, a card that fails a
\* required-field check is left out of the graph and the flow is still
\* created; the call fails only when no card is valid.
C15_InvalidCardsExcluded == (ListShaped /\ ~IsErr(mid)) =>
                              /\ IsErr(san) <=> (\A i \in 1..Len(MidCards) : ~PassesValidator(MidCards[i].v))
                              /\ ~IsErr(san) => \A i \in 1..Len(MidCards) : Has(Get(san, "cards"), MidCards[i].k) <=> PassesValidator(MidCards[i].v)

StartsWith(s, t) == Len(s) >= Len(t) /\ SubSeq(s, 1, Len(t)) = t

AlphaNumeric == {"0", "1", "2", "3", "4", "5", "6", "7", "8", "9", "a", "b", "c", "d", "e", "f", "g", "h", "i", "j", "k", "l", "m", "n", "o", "p", "q", "r", "s", "t", "u", "v", "w", "x", "y", "z",
                 "A", "B", "C", "D", "E", "F", "G", "H", "I", "J", "K", "L", "M", "N", "O", "P", "Q", "R", "S", "T", "U", "V", "W", "X", "Y", "Z"}

\* "Flow " followed by 8 alphanumeric characters
FallbackFlowName(s) == Len(s) = 13 /\ StartsWith(s, "Flow ") /\ \A i \in 6..13 : SubSeq(s, i, i) \in AlphaNumeric

\* the number of name-substitution warnings the call logged
NameWarnings == Cardinality({i \in 1..Len(warnings) : StartsWith(warnings[i], "Fixed invalid flow name: ")})

\* the name create_flow was called with is a non-blank string
NameGiven == IsStr(Get(arg, "name")) /\ Strip(Get(arg, "name").s) # ""

\* C16: the name _sanitize_flow_data returns is the trimmed input name when
\* that is a non-blank string and "Flow " plus 8 alphanumeric characters
\* otherwise (null, missing, no string, blank); a warning is logged exactly
\* when the name is replaced.
C16_NameTrimmedOrFallback == op = "create_flow" =>
                               /\ ~IsErr(san) =>
                                    /\ IsStr(Get(san, "name")) /\ Strip(Get(san, "name").s) # ""
                                    /\ NameGiven => (Get(san, "name").s = Strip(Get(arg, "name").s) /\ NameWarnings = 0)
                                    /\ ~NameGiven => (FallbackFlowName(Get(san, "name").s) /\ NameWarnings = 1)
                               /\ IsErr(san) => NameWarnings = (IF IsDict(arg) /\ arg.kids # <<>> /\ ~NameGiven THEN 1 ELSE 0)

\* a flow whose name is null was accepted
C16_Witness == /\ op = "create_flow" /\ ~IsErr(san)
               /\ Has(arg, "name") /\ Get(arg, "name").t = "null"
               /\ NameWarnings = 1

\* create_flow was called with a flow whose trigger passes validation
TriggerAccepted == /\ op = "create_flow" /\ IsDict(arg)
                   /\ IsDict(Get(arg, "trigger")) /\ Get(arg, "trigger").kids # <<>>
                   /\ ~IsErr(validate_flow_card(Get(arg, "trigger"), "trigger", cachedCards))

\* the element is a dict that _validate_flow_card accepts as card_type
ValidElement(e, card_type) == IsDict(e) /\ ~IsErr(validate_flow_card(e, card_type, cachedCards))

\* the valid elements of a list, validated, in order
ValidatedElements(kids, card_type) == LET valid == SelectSeq(kids, LAMBDA e : ValidElement(e.v, card_type))
                                      IN List([i \in 1..Len(valid) |-> Entry("", validate_flow_card(valid[i].v, card_type, cachedCards))])

\* C17 as stated: actions that is missing, no list or empty fails with an
\* error mentioning "action"; an invalid element is dropped without failing
\* the call; the call fails with "Flow must have at least one valid action"
\* exactly when no element survives.
C17_InvalidActionsDropped == (TriggerAccepted /\ ~Has(arg, "conditions")) =>
                               LET actions == Get(arg, "actions")
                               IN IF ~IsList(actions) \/ actions.kids = <<>>
                                  THEN san = Err("ValueError: Flow must have at least one action")
                                  ELSE IF \A i \in 1..Len(actions.kids) : ~ValidElement(actions.kids[i].v, "action")
                                  THEN san = Err("ValueError: Flow must have at least one valid action")
                                  ELSE ~IsErr(san) /\ Get(san, "actions") = ValidatedElements(actions.kids, "action")

\* C18 as stated: whatever conditions is (missing, null, no list, a list
\* with entries that are no dict or have neither id nor uri), the call does
\* not fail because of it: invalid entries are dropped, a missing key gives
\* the empty list.
C18_ConditionsNeverFatal == (TriggerAccepted /\ Get(arg, "actions") = GoodActions) =>
                              LET conditions == Get(arg, "conditions")
                              IN /\ ~IsErr(san)
                                 /\ Get(san, "conditions") = (IF IsList(conditions) THEN ValidatedElements(conditions.kids, "condition") ELSE ListOf(<<>>))

\* a non-empty dict carrying an id or a uri
CarriesIdOrUri(card) == IsDict(card) /\ card.kids # <<>> /\ (Truthy(Get(card, "id")) \/ Truthy(Get(card, "uri")))

\* C19 as stated: a flow _sanitize_flow_data returns has a non-empty string
\* name, a boolean enabled (true when absent), a trigger that is a non-empty
\* dict carrying an id or uri, and a non-empty actions list of such dicts; a
\* missing, non-dict or empty trigger always fails and nothing is returned.
C19_RequiredFieldsValid == op = "create_flow" =>
                             /\ ~IsErr(san) =>
                                  /\ IsStr(Get(san, "name")) /\ Strip(Get(san, "name").s) # ""
                                  /\ Get(san, "enabled").t = "bool"
                                  /\ ~Has(arg, "enabled") => Get(san, "enabled") = Bool(TRUE)
                                  /\ CarriesIdOrUri(Get(san, "trigger"))
                                  /\ IsList(Get(san, "actions")) /\ Get(san, "actions").kids # <<>>
                                  /\ \A i \in 1..Len(Get(san, "actions").kids) : CarriesIdOrUri(Get(san, "actions").kids[i].v)
                             /\ (~IsDict(Get(arg, "trigger")) \/ Get(arg, "trigger").kids = <<>>) => (IsErr(san) /\ IsErr(ret))

\* C20: _sanitize_folder_data raises if and only if name is null, no string
\* or blank; otherwise it returns the trimmed name, with a parent entry
\* exactly when parent is a non-blank string (then the trimmed parent), and
\* never with parent as null.
C20_FolderNameAndParent == op = "create_flow_folder" =>
                             LET name == Get(arg, "name")
                                 parent == Get(arg, "parent")
                                 parentGiven == IsStr(parent) /\ Strip(parent.s) # ""
                             IN /\ IsErr(san) <=> (name.t = "null" \/ ~IsStr(name) \/ Strip(name.s) = "")
                                /\ ~IsErr(san) =>
                                     /\ Get(san, "name") = Str(Strip(name.s))
                                     /\ Has(san, "parent") <=> parentGiven
                                     /\ parentGiven => Get(san, "parent") = Str(Strip(parent.s))
                                     /\ \A i \in 1..Len(san.kids) : san.kids[i].k \in {"name", "parent"} /\ san.kids[i].v.t # "null"

\* a folder with a padded name and a padded parent was sanitized
C20_Witness == /\ op = "create_flow_folder" /\ ~IsErr(san)
               /\ Get(arg, "name") = Str(" Lights ") /\ Get(arg, "parent") = Str(" p1 ")
               /\ Has(san, "parent")

\* the cards of the cleaned flow
RetCards == Get(ret, "cards").kids

\* field f of the card lists at least one id
NonEmptyEdges(card, f) == /\ IsList(Get(card, f))
                          /\ \E i \in 1..Len(Get(card, f).kids) : is_valid_value(Get(card, f).kids[i].v)

\* C23 as stated: every card the post-pass of _ultra_clean_for_api retains
\* has a type, an id ("unknown" when it had none) and an ownerUri
\* ("homey:app:unknown" when it had none), and of its other fields keeps
\* exactly x, y and its non-empty edge lists outputSuccess, outputTrue,
\* outputFalse and outputError; every other field is removed.
C23_PostPassCardShape == (op = "ultra_clean" /\ IsDict(arg) /\ IsDict(Get(arg, "cards")) /\ IsDict(ret)) =>
                           \A i \in 1..Len(RetCards) :
                              LET c == RetCards[i].v
                                  o == Get(Get(arg, "cards"), RetCards[i].k)
                              IN /\ Has(c, "type") /\ Has(c, "id") /\ Has(c, "ownerUri")
                                 /\ ~Has(o, "id") => Get(c, "id") = Str("unknown")
                                 /\ ~Has(o, "ownerUri") => Get(c, "ownerUri") = Str("homey:app:unknown")
                                 /\ \A j \in 1..Len(c.kids) : c.kids[j].k \in {"type", "id", "ownerUri", "x", "y"} \cup OutputFields
                                 /\ \A f \in {"x", "y"} : Has(c, f) <=> (Has(o, f) /\ Get(o, f) # Null)
                                 /\ \A f \in OutputFields : Has(c, f) <=> NonEmptyEdges(o, f)

\* C25: a card of type note or end is never given an output field by the
\* converter, whatever its position: the converted card has exactly the
\* output fields of the original, with the author's values.
C25_TerminalNeverWired == (ListShaped /\ ~IsErr(mid)) =>
                            \A i \in 1..Len(ArgCards) :
                               Get(ArgCards[i].v, "type") \in {Str("note"), Str("end")} =>
                                  \A f \in OutputFields : /\ Has(MidCards[i].v, f) <=> Has(ArgCards[i].v, f)
                                                          /\ Get(MidCards[i].v, f) = Get(ArgCards[i].v, f)

\* an end card followed by another card was converted and has no edge
C25_Witness == /\ ListShaped /\ ~IsErr(mid)
               /\ \E i \in 1..(Len(ArgCards) - 1) :
                    /\ Get(ArgCards[i].v, "type") = Str("end")
                    /\ EdgesOf(MidCards[i].v) = 0

\* C26 as stated: a card that declares any of outputSuccess, outputTrue,
\* outputFalse, outputError in its original form receives no auto-wired edge:
\* the output fields of the converted card are exactly the author's.
C26_DeclaringCardNotWired == (ListShaped /\ ~IsErr(mid)) =>
                               \A i \in 1..Len(ArgCards) :
                                  (\E g \in OutputFields : Has(ArgCards[i].v, g)) =>
                                     \A f \in OutputFields : /\ Has(MidCards[i].v, f) <=> Has(ArgCards[i].v, f)
                                                             /\ Get(MidCards[i].v, f) = Get(ArgCards[i].v, f)

\* C28 as stated: the cards create_advanced_flow posts in live mode equal
\* the validated cards (the cards demo mode returns for the same input).
C28_PostedCardsAreValidated == (op = "create_advanced_flow" /\ mode = "live" /\ posted # <<>>) =>
                                  PyEq(Get(Get(posted[1].json, "advancedflow"), "cards"), Get(san, "cards"))

\* the catalogs _get_available_cards can leave in the cache
Catalogs == {EmptyCatalog, catalog_of(DemoListings), catalog_of(HubListings)}

\* the cards of the basic flow create_flow was called with, each with the
\* card type it is validated as
FlowCards == LET elements(f) == IF IsList(Get(arg, f)) THEN {Get(arg, f).kids[i].v : i \in 1..Len(Get(arg, f).kids)} ELSE {}
             IN {<<Get(arg, "trigger"), "trigger">>} \cup {<<e, "action">> : e \in elements("actions")} \cup {<<e, "condition">> : e \in elements("conditions")}

\* the card is a dict with a truthy id or uri
Identified(card) == IsDict(card) /\ (Truthy(Get(card, "id")) \/ Truthy(Get(card, "uri")))

\* neither the id nor the uri of the card is a list or a map
HashableIds(card) == ~Unhashable(Get(card, "id")) /\ ~Unhashable(Get(card, "uri"))

\* sequence ws is part of the warnings of the call
Logged(ws) == \A i \in 1..Len(ws) : \E j \in 1..Len(warnings) : warnings[j] = ws[i]

C21_ListingsRequestedOnce == \A l \in Listings : listingRequests[l] <= 1

\* C29 as stated: once the cache holds a successfully fetched catalog, no
\* step of any caller of _get_available_cards changes it.
C29_FetchedCatalogKept == [][cachedCards \notin {Null, EmptyCatalog} => cachedCards' = cachedCards]_vars

\* the calls that run the converter, a validator, a sanitizer or the cleaner
SanitizerOps == {"create_advanced_flow", "normalize_again", "create_flow", "ultra_clean", "ultra_clean_again", "validate_advanced_flow_card"}

CreateOps == {"create_flow", "create_advanced_flow", "create_flow_folder"}

\* the body a create call posts for the sanitized data
PostedBody == CASE op = "create_flow" -> Map(<<Entry("flow", san)>>)
                [] op = "create_advanced_flow" -> Map(<<Entry("advancedflow", ultra_clean_for_api(san))>>)
                [] OTHER -> Map(<<Entry("flowfolder", san)>>)

HandlerOps == {"handle_create_flow", "handle_create_advanced_flow", "handle_create_flow_folder"}

\* C24: a create handler never raises: whatever the argument map, its result
\* is a text; the text starts with the cross mark whenever a required
\* argument was missing or validation of the input failed, and with the
\* check mark only when the client call returned.
C24_HandlersNeverRaise == op \in HandlerOps =>
                            /\ IsStr(ret)
                            /\ StartsWith(ret.s, CrossMark) \/ StartsWith(ret.s, CheckMark)
                            /\ IsErr(san) => StartsWith(ret.s, CrossMark)
                            /\ StartsWith(ret.s, CheckMark) => (~IsErr(san) /\ (mode = "live" => Len(posted) = 1))

\* a handler reported an exception that is no ValueError: a missing
\* argument, and a card list entry that is no dict
C24_Witness == /\ op = "handle_create_advanced_flow"
               /\ IsErr(san) /\ ExcType(san) = "AttributeError"
               /\ StartsWith(ret.s, CrossMark \o " Error creating advanced flow: ")

=============================================================================
